---- MODULE Spec2Model ----
(***************************************************************************)
(* A model of cfgclasses: dataclass schemas compiled into an argparse      *)
(* registration plan, argv parsed by the engine, and the namespace turned  *)
(* back into a validated object graph.                                     *)
(*                                                                         *)
(* Two generations of the package are in the tree and both are modelled:   *)
(*   - cfgclasses/ (Specification, SpecificationItem, parse_args, ...)     *)
(*   - the earlier package at the top of src/ (ArgGroup, ArgSpec, ArgOpts, *)
(*     ConfigClass.parse_args, ...), prefixed Legacy below.                *)
(* argparse itself is the external engine; it is modelled by its           *)
(* documented behaviour at the places the package calls it.                *)
(***************************************************************************)
EXTENDS Integers, Sequences, FiniteSets, TLC

VARIABLES api, cls, genNames, genField, classes, submodes, argv, pc, result, again, validated, objects, frames
\* api, cls, submodes, argv: the entry point called and its arguments;
\* genNames, genField: the option names arg() was given for the field of
\* the generated schema, and the field it returned; classes: the schema
\* classes defined when the call is made; pc, result: where the call is and
\* how it ended; again: how the same use of a Specification ended when it
\* was made a second time; validated: the validator methods the call
\* invoked, in order, each with the instance it was invoked on and what
\* it raised; objects: the instances validate_post_argparse is called on
\* when it is called by itself, each with the instances its attributes
\* refer to; frames: the calls of _validate_nested that have not returned

vars == <<api, cls, genNames, genField, classes, submodes, argv, pc, result, again, validated, objects, frames>>

(***************************************************************************)
(* Bounds of the model.                                                    *)
(***************************************************************************)
\* longest argv given to a hand-written schema
MaxArgv == 4
\* longest argv given to a schema with one generated field
MaxGenArgv == 3
\* deepest nesting of calls the interpreter allows before RecursionError
RecursionLimit == 5

(***************************************************************************)
(* Python values.  Every value is a record with one tag field, so values   *)
(* of different Python types are comparable and never equal.               *)
(***************************************************************************)
VInt(n) == [int |-> n]
VStr(s) == [str |-> s]
VBool(b) == [bool |-> b]
VList(l) == [list |-> l]
VType(t) == [type |-> t]
None == [none |-> TRUE]
\* dataclasses.MISSING
MISSING == [missing |-> TRUE]

IsInt(v) == DOMAIN v = {"int"}
IsStr(v) == DOMAIN v = {"str"}
IsBool(v) == DOMAIN v = {"bool"}
IsList(v) == DOMAIN v = {"list"}
IsNone(v) == DOMAIN v = {"none"}
IsExc(v) == "exc" \in DOMAIN v

\* A raised exception, as a value that propagates.
Raise(kind, msg) == [exc |-> kind, msg |-> msg]

\* NotSpecified(): every instance equals every other instance and nothing else.
NotSpecified == [notspecified |-> TRUE]

identity_transform(value) == value

(***************************************************************************)
(* Declared types, as typing sees them: get_origin and get_args.           *)
(***************************************************************************)
TPlain(n) == [k |-> "plain", n |-> n]
TInt == TPlain("int")
TStr == TPlain("str")
TBoolT == TPlain("bool")
TNoneType == TPlain("NoneType")
TList(t) == [k |-> "list", args |-> <<t>>]
\* typing keeps the order the members of a Union were written in
TUnion(args) == [k |-> "Union", args |-> args]
TOptional(t) == TUnion(<<t, TNoneType>>)
\* a dataclass that is itself a schema
TClass(c) == [k |-> "class", n |-> c]

get_origin(t) == IF t.k \in {"list", "Union"} THEN t.k ELSE "None"
get_args(t) == IF t.k \in {"list", "Union"} THEN t.args ELSE << >>

(***************************************************************************)
(* Names.  Python's str.replace cannot be computed on TLC strings, so a    *)
(* name is kept with the words it is made of: the identifier joins them    *)
(* with "_" and replace("_", "-") joins them with "-".                     *)
(***************************************************************************)
NameWords ==
  [n \in {"a_b", "natural", "anum", "apple", "bnum", "debug", "quiet",
          "opt_a", "a_opts", "loglevel", "p_q", "r_s", "tnum", "cnum",
          "posfield", "intfield", "poslistfield", "inner"} |->
     CASE n = "a_b" -> <<"a", "b">>
       [] n = "opt_a" -> <<"opt", "a">>
       [] n = "a_opts" -> <<"a", "opts">>
       [] n = "p_q" -> <<"p", "q">>
       [] n = "r_s" -> <<"r", "s">>
       [] OTHER -> <<n>>]

RECURSIVE JoinWith(_, _)
JoinWith(words, sep) ==
  IF Len(words) = 0 THEN ""
  ELSE IF Len(words) = 1 THEN words[1]
  ELSE words[1] \o sep \o JoinWith(Tail(words), sep)

\* name.replace("_", "-")
Hyphenated(name) == JoinWith(NameWords[name], "-")

\* name.replace("-", "_") of a name replace("_", "-") made
Underscored(name) ==
  JoinWith(NameWords[CHOOSE n \in DOMAIN NameWords : Hyphenated(n) = name],
           "_")

(***************************************************************************)
(* Callables a schema may carry: transforms and default factories.         *)
(***************************************************************************)
Fn(name) == [fn |-> name]

\* transform(value) for the transforms the schemas use: succ adds one,
\* count is len, str is the builtin (its text is kept as the value it shows),
\* checked builds a Checked from a Natural: lambda n: Checked(anum=n.natural)
ApplyTransform(tr, v) ==
  CASE tr = "identity" -> v
    [] tr = "succ" ->
         IF IsInt(v) THEN VInt(v.int + 1)
         ELSE Raise("TypeError", "unsupported operand")
    [] tr = "count" ->
         IF IsList(v) THEN VInt(Len(v.list))
         ELSE Raise("TypeError", "object has no len()")
    [] tr = "str" -> [strof |-> v]
    [] tr = "checked" ->
         IF "obj" \in DOMAIN v /\ v.obj = "Natural"
         THEN [obj |-> "Checked", f |-> [anum |-> v.f["natural"]]]
         ELSE Raise("AttributeError", "object has no attribute 'natural'")

\* a default factory that is not pure: called after the first use of a
\* Specification it gives another value
CallFactory_impure(f) ==
  IF pc = "call"
  THEN CASE f.fn = "list" -> VList(<< >>)
         [] f.fn = "ones" -> VList(<<VInt(1)>>)
         [] f.fn = "two" -> VInt(2)
         [] f.fn = "wrapped" -> VInt(2)
  ELSE VInt(5)

\* default_factory(): "list" is the builtin list, "ones" returns [1];
\* a wrapped factory is arg()'s lambda: transform(default_factory())
CallFactory(f) ==
  CASE f.fn = "list" -> VList(<< >>)
    [] f.fn = "ones" -> VList(<<VInt(1)>>)
    [] f.fn = "two" -> VInt(2)
    [] f.fn = "wrapped" ->
         ApplyTransform(f.tr,
           CASE f.inner = "list" -> VList(<< >>)
             [] f.inner = "ones" -> VList(<<VInt(1)>>)
             [] f.inner = "two" -> VInt(2))

(***************************************************************************)
(* Field metadata of cfgclasses/: ConfigOpts, NonPositionalConfigOpts and  *)
(* ConfigClassTransform, stored under CFG_METADATA_FIELD.                  *)
(***************************************************************************)
CFG_METADATA_FIELD == "cfgclasses.configopts"

ConfigOpts(help, metavar, choices, transform, transform_type, default) ==
  [class |-> "ConfigOpts", help |-> help, metavar |-> metavar,
   choices |-> choices, transform |-> transform,
   transform_type |-> transform_type, default |-> default]

NonPositionalConfigOpts(help, metavar, choices, transform, transform_type, default, optnames) ==
  [class |-> "NonPositionalConfigOpts", help |-> help, metavar |-> metavar,
   choices |-> choices, transform |-> transform,
   transform_type |-> transform_type, default |-> default,
   optnames |-> optnames]

\* NonPositionalConfigOpts(): every option at its declared default
DefaultNonPositionalConfigOpts ==
  NonPositionalConfigOpts("", None, None, None, None, NotSpecified, << >>)

ConfigClassTransform(transform, transform_type) ==
  [class |-> "ConfigClassTransform", transform |-> transform,
   transform_type |-> transform_type]

\* dataclasses.field(default=..., default_factory=..., metadata=...)
DataclassField(default, default_factory, metadata) ==
  [default |-> default, default_factory |-> default_factory,
   metadata |-> metadata]

\* the dataclass decorator gives the field its name and annotated type
Declare(name, type, f) ==
  [name |-> name, type |-> type, default |-> f.default,
   default_factory |-> f.default_factory, metadata |-> f.metadata]

\* cfgclasses.arg()
arg(helpstr, optnames, positional, metavar, choices, default, default_factory, transform, transform_type) ==
  LET cli_default ==
        IF default = MISSING /\ default_factory # MISSING
        THEN CallFactory(default_factory) ELSE default
      opts ==
        IF positional
        THEN ConfigOpts(helpstr, metavar, choices, transform,
                        transform_type, cli_default)
        ELSE NonPositionalConfigOpts(helpstr, metavar, choices, transform,
                                     transform_type, cli_default, optnames)
      Field(md) ==
        IF default # MISSING
        THEN DataclassField(
               IF transform # None THEN ApplyTransform(transform.fn, default)
               ELSE default,
               MISSING, md)
        ELSE IF default_factory # MISSING
        THEN DataclassField(
               MISSING,
               IF transform # None
               THEN [fn |-> "wrapped", tr |-> transform.fn,
                     inner |-> default_factory.fn]
               ELSE default_factory,
               md)
        ELSE DataclassField(MISSING, MISSING, md)
  IN Field(CFG_METADATA_FIELD :> opts)

\* cfgclasses.optional()
optional(helpstr, optnames, positional, metavar, choices, transform, transform_type) ==
  IF transform # None /\ transform_type # None
  THEN arg(helpstr, optnames, positional, metavar, choices, None, MISSING,
           transform, transform_type)
  ELSE arg(helpstr, optnames, positional, metavar, choices, None, MISSING,
           None, None)

\* cfgclasses.cfgtransform()
cfgtransform(transform_type, transform) ==
  DataclassField(MISSING, MISSING,
    CFG_METADATA_FIELD :> ConfigClassTransform(transform, transform_type))

\* a field declared with an annotation only
BareField == DataclassField(MISSING, MISSING, << >>)

\* dict.get(key, default)
DictGet(d, key, dflt) == IF key \in DOMAIN d THEN d[key] ELSE dflt

\* Python's "a or b" for a value that is None or truthy
OrElse(a, b) == IF a # None THEN a ELSE b

\* the first raised exception among the values of a sequence, or None
RECURSIVE FirstExc(_)
FirstExc(seq) ==
  IF Len(seq) = 0 THEN None
  ELSE IF IsExc(Head(seq)) THEN Head(seq)
  ELSE FirstExc(Tail(seq))

(***************************************************************************)
(* cfgclasses/argspec.py: the specification items.                         *)
(***************************************************************************)
\* _default_from_field with a default of None read as no default
_default_from_field_none(field) ==
  IF field.default # MISSING /\ field.default # None THEN field.default
  ELSE IF field.default_factory # MISSING
  THEN CallFactory(field.default_factory)
  ELSE NotSpecified

\* _default_from_field
_default_from_field(field) ==
  IF field.default # MISSING THEN field.default
  ELSE IF field.default_factory # MISSING
  THEN CallFactory(field.default_factory)
  ELSE NotSpecified

\* _is_optional_type
_is_optional_type(metatype) ==
  /\ get_origin(metatype) = "Union"
  /\ Len(get_args(metatype)) = 2
  /\ \E i \in 1..Len(get_args(metatype)) : get_args(metatype)[i] = TNoneType

\* get_argtype of the item class itemcls
get_argtype(itemcls, field_type) ==
  IF itemcls \in {"ListSpecItem", "OptionalSpecItem", "ListPositionalSpecItem"}
  THEN get_args(field_type)[1]
  ELSE field_type

\* StandardSpecItem.from_field, inherited by List, Optional and Bool items
StandardSpecItem_from_field(itemcls, metadata, field) ==
  LET dflt == _default_from_field(field)
  IN IF IsExc(dflt) THEN dflt
     ELSE [class |-> itemcls,
           name |-> field.name,
           type |-> get_argtype(itemcls,
                                OrElse(metadata.transform_type, field.type)),
           help |-> metadata.help,
           metavar |-> metadata.metavar,
           choices |-> metadata.choices,
           default |-> dflt,
           transform |-> OrElse(metadata.transform, Fn("identity")),
           optnames |-> metadata.optnames]

\* PositionalSpecItem.from_field, inherited by ListPositionalSpecItem
PositionalSpecItem_from_field(itemcls, metadata, field) ==
  LET dflt == _default_from_field(field)
  IN IF IsExc(dflt) THEN dflt
     ELSE [class |-> itemcls,
           name |-> field.name,
           type |-> get_argtype(itemcls,
                                OrElse(metadata.transform_type, field.type)),
           help |-> metadata.help,
           metavar |-> metadata.metavar,
           choices |-> metadata.choices,
           default |-> dflt,
           transform |-> OrElse(metadata.transform, Fn("identity"))]

IsPositionalItem(item) ==
  item.class \in {"PositionalSpecItem", "ListPositionalSpecItem"}

\* get_optnames of StandardSpecItem and of PositionalSpecItem
get_optnames(item) ==
  IF IsPositionalItem(item) THEN <<item.name>>
  ELSE IF item.optnames # << >> THEN item.optnames
  ELSE <<"--" \o Hyphenated(item.name)>>

\* a dict without one key (del d[key])
DictDel(d, key) == [x \in DOMAIN d \ {key} |-> d[x]]

\* SpecificationItem.get_kwargs
SpecificationItem_get_kwargs(item) ==
  (IF item.default # NotSpecified
   THEN "default" :> item.default
   ELSE "required" :> VBool(TRUE))
  @@ (IF item.choices # None THEN "choices" :> item.choices ELSE << >>)
  @@ (IF item.metavar # None THEN "metavar" :> item.metavar ELSE << >>)
  @@ [dest |-> VStr(item.name), type |-> VType(item.type),
      help |-> VStr(item.help)]

\* ListSpecItem.get_kwargs
ListSpecItem_get_kwargs(item) ==
  ("nargs" :> VStr("+")) @@ SpecificationItem_get_kwargs(item)

\* OptionalSpecItem.get_kwargs without its override of required
OptionalSpecItem_get_kwargs_inherited(item) ==
  SpecificationItem_get_kwargs(item)

\* OptionalSpecItem.get_kwargs
OptionalSpecItem_get_kwargs(item) ==
  ("required" :> VBool(FALSE)) @@ SpecificationItem_get_kwargs(item)

\* BoolSpecItem.get_kwargs that always turns the flag on
BoolSpecItem_get_kwargs_store_true(item) ==
  LET ret == DictDel(("action" :> VStr("store_true"))
                     @@ SpecificationItem_get_kwargs(item), "type")
  IN IF "required" \in DOMAIN ret THEN DictDel(ret, "required") ELSE ret

\* BoolSpecItem.get_kwargs
BoolSpecItem_get_kwargs(item) ==
  LET action == IF item.default = VBool(TRUE)
                THEN "store_false" ELSE "store_true"
      ret == DictDel(("action" :> VStr(action))
                     @@ SpecificationItem_get_kwargs(item), "type")
  IN IF "required" \in DOMAIN ret THEN DictDel(ret, "required") ELSE ret

\* PositionalSpecItem.get_kwargs that leaves "required" in
PositionalSpecItem_get_kwargs_required(item) ==
  DictDel(SpecificationItem_get_kwargs(item), "dest")

\* PositionalSpecItem.get_kwargs
PositionalSpecItem_get_kwargs(item) ==
  LET ret == DictDel(SpecificationItem_get_kwargs(item), "dest")
  IN IF "required" \in DOMAIN ret THEN DictDel(ret, "required") ELSE ret

\* ListPositionalSpecItem.get_kwargs
ListPositionalSpecItem_get_kwargs(item) ==
  ("nargs" :> VStr("+")) @@ PositionalSpecItem_get_kwargs(item)

\* item.get_kwargs(), dispatched on the item's class
get_kwargs(item) ==
  CASE item.class = "StandardSpecItem" -> SpecificationItem_get_kwargs(item)
    [] item.class = "ListSpecItem" -> ListSpecItem_get_kwargs(item)
    [] item.class = "OptionalSpecItem" -> OptionalSpecItem_get_kwargs(item)
    [] item.class = "BoolSpecItem" -> BoolSpecItem_get_kwargs(item)
    [] item.class = "PositionalSpecItem" -> PositionalSpecItem_get_kwargs(item)
    [] item.class = "ListPositionalSpecItem" ->
         ListPositionalSpecItem_get_kwargs(item)

\* _specitem_from_field without the check of a positional field's type
_specitem_from_field_unchecked(field) ==
  LET metadata == DictGet(field.metadata, CFG_METADATA_FIELD,
                          DefaultNonPositionalConfigOpts)
      field_type == OrElse(metadata.transform_type, field.type)
  IN IF metadata.class = "NonPositionalConfigOpts"
     THEN IF get_origin(field_type) = "list"
          THEN StandardSpecItem_from_field("ListSpecItem", metadata, field)
          ELSE IF _is_optional_type(field_type)
          THEN StandardSpecItem_from_field("OptionalSpecItem", metadata, field)
          ELSE IF field_type = TBoolT
          THEN StandardSpecItem_from_field("BoolSpecItem", metadata, field)
          ELSE StandardSpecItem_from_field("StandardSpecItem", metadata, field)
     ELSE IF get_origin(field_type) = "list"
          THEN PositionalSpecItem_from_field("ListPositionalSpecItem",
                                             metadata, field)
          ELSE PositionalSpecItem_from_field("PositionalSpecItem",
                                             metadata, field)

\* _specitem_from_field
_specitem_from_field(field) ==
  LET metadata == DictGet(field.metadata, CFG_METADATA_FIELD,
                          DefaultNonPositionalConfigOpts)
      field_type == OrElse(metadata.transform_type, field.type)
  IN IF metadata.class = "NonPositionalConfigOpts"
     THEN IF get_origin(field_type) = "list"
          THEN StandardSpecItem_from_field("ListSpecItem", metadata, field)
          ELSE IF _is_optional_type(field_type)
          THEN StandardSpecItem_from_field("OptionalSpecItem", metadata, field)
          ELSE IF field_type = TBoolT
          THEN StandardSpecItem_from_field("BoolSpecItem", metadata, field)
          ELSE StandardSpecItem_from_field("StandardSpecItem", metadata, field)
     ELSE IF get_origin(field_type) = "list"
          THEN PositionalSpecItem_from_field("ListPositionalSpecItem",
                                             metadata, field)
          ELSE IF get_origin(field_type) = "None"
          THEN PositionalSpecItem_from_field("PositionalSpecItem",
                                             metadata, field)
          ELSE Raise("TypeError",
                     "Can't use type with a positional argument.")

(***************************************************************************)
(* fieldtypes.py of the first generation: the helpers that declare fields  *)
(* for ConfigClass subclasses.  Their metadata is a plain dict.            *)
(***************************************************************************)
\* simplefield(helpstr, default=None)
simplefield(helpstr, default) ==
  DataclassField(IF default # None THEN default ELSE MISSING, MISSING,
                 "help" :> VStr(helpstr))

\* store_truefield(helpstr)
store_truefield(helpstr) ==
  DataclassField(VBool(FALSE), MISSING, "help" :> VStr(helpstr))

\* optionalfield(helpstr)
optionalfield(helpstr) ==
  DataclassField(None, MISSING, "help" :> VStr(helpstr))

\* choicesfield(helpstr, choices, default=None)
choicesfield(helpstr, choices, default) ==
  DataclassField(IF default # None THEN default ELSE MISSING, MISSING,
                 ("help" :> VStr(helpstr)) @@ ("choices" :> choices))

\* positionalfield(helpstr, default=None, default_factory=None, nargs=None)
positionalfield(helpstr, default, default_factory, nargs) ==
  DataclassField(IF default # None THEN default ELSE MISSING,
                 IF default_factory # None THEN default_factory ELSE MISSING,
                 ("help" :> VStr(helpstr)) @@ ("positional" :> VBool(TRUE))
                 @@ (IF nargs # None THEN "nargs" :> nargs ELSE << >>))

\* mutually_exclusive_group()
mutually_exclusive_group ==
  DataclassField(MISSING, MISSING, "mutually_exclusive" :> VBool(TRUE))

(***************************************************************************)
(* The schema classes.  A class is its ordered fields, whether it derives  *)
(* from ConfigGroup, whether it is a dataclass, whether it is marked       *)
(* mutually exclusive, and its validator-marked methods.                   *)
(***************************************************************************)
Help == "help"

\* arg(help) with nothing else given
SimpleArg == arg(Help, << >>, FALSE, None, None, MISSING, MISSING, None, None)

\* arg(help, positional=True)
PositionalArg == arg(Help, << >>, TRUE, None, None, MISSING, MISSING, None, None)

\* arg(help, default=d)
DefaultArg(d) == arg(Help, << >>, FALSE, None, None, d, MISSING, None, None)

\* a validator-marked method: raises ValueError(msg) when self.<field> < 0
NonNegative(name, field, msg) == [name |-> name, field |-> field, msg |-> msg]

SchemaClass(fs, exclusive, validators) ==
  [fields |-> fs, configgroup |-> TRUE, dataclass |-> TRUE,
   exclusive |-> exclusive, validators |-> validators]

ClassNames ==
  {"Gen", "Natural", "MEGroupConfig", "TopLevelConfig", "LogLevel", "Config",
   "Top", "SubmodeA", "SubmodeB", "Nest1", "Nest2", "StrSub", "Checked",
   "Swap", "TopV", "SubmodeC", "PosNum", "TwoPos", "TwoFlags", "DestP",
   "DestR", "TwoDests", "PosAndOpt", "PosList", "GroupFirst", "Checks",
   "Plain", "TopT", "SubmodeT", "Holder", "Pair", "Node", "LegacyGen", "LegacyMEGroupConfig",
   "LegacyTopLevelConfig", "LegacyTop", "LegacySubmodeA", "LegacySubmodeB"}

\* the class statement of each schema class
ClassTable(c) ==
  CASE c = "Natural" ->
         SchemaClass(<<Declare("natural", TInt, SimpleArg)>>, FALSE,
                     <<NonNegative("validate_my_config", "natural",
                                   "natural must be >= 0")>>)
    [] c = "MEGroupConfig" ->
         SchemaClass(<<Declare("anum", TInt, DefaultArg(VInt(0))),
                       Declare("apple", TStr, DefaultArg(VStr("no")))>>,
                     TRUE, << >>)
    [] c = "TopLevelConfig" ->
         SchemaClass(<<Declare("a_opts", TClass("MEGroupConfig"), BareField)>>,
                     FALSE, << >>)
    [] c = "LogLevel" ->
         SchemaClass(<<Declare("debug", TBoolT, SimpleArg),
                       Declare("quiet", TBoolT, SimpleArg)>>, TRUE, << >>)
    [] c = "Config" ->
         SchemaClass(<<Declare("loglevel", TClass("LogLevel"), BareField)>>,
                     FALSE, << >>)
    [] c = "Top" ->
         SchemaClass(<<Declare("debug", TBoolT, SimpleArg)>>, FALSE, << >>)
    [] c = "SubmodeA" ->
         SchemaClass(<<Declare("anum", TInt, SimpleArg)>>, FALSE,
                     <<NonNegative("validate_my_config", "anum",
                                   "anum must be >= 0")>>)
    [] c = "SubmodeB" ->
         SchemaClass(<<Declare("bnum", TInt, SimpleArg)>>, FALSE, << >>)
    [] c = "TopV" ->
         SchemaClass(<<Declare("tnum", TInt, DefaultArg(VInt(0)))>>, FALSE,
                     <<NonNegative("validate_my_config", "tnum",
                                   "tnum must be >= 0")>>)
    [] c = "SubmodeC" ->
         SchemaClass(<<Declare("cnum", TInt, DefaultArg(VInt(0)))>>, FALSE,
                     <<NonNegative("validate_my_config", "cnum",
                                   "cnum must be >= 0")>>)
    [] c = "PosNum" ->
         SchemaClass(<<Declare("anum", TInt,
                               arg(Help, << >>, TRUE, None, None, MISSING,
                                   MISSING, None, None))>>, FALSE, << >>)
    [] c = "TwoPos" ->
         SchemaClass(<<Declare("a_opts", TClass("PosNum"), BareField),
                       Declare("loglevel", TClass("PosNum"), BareField)>>,
                     FALSE, << >>)
    [] c = "TwoFlags" ->
         SchemaClass(<<Declare("a_opts", TClass("SubmodeB"), BareField),
                       Declare("loglevel", TClass("SubmodeB"), BareField)>>,
                     FALSE, << >>)
    [] c = "DestP" ->
         SchemaClass(<<Declare("anum", TInt,
                               arg(Help, <<"--p-q">>, FALSE, None, None,
                                   MISSING, MISSING, None, None))>>,
                     FALSE, << >>)
    [] c = "DestR" ->
         SchemaClass(<<Declare("anum", TInt,
                               arg(Help, <<"--r-s">>, FALSE, None, None,
                                   MISSING, MISSING, None, None))>>,
                     FALSE, << >>)
    [] c = "TwoDests" ->
         SchemaClass(<<Declare("a_opts", TClass("DestP"), BareField),
                       Declare("loglevel", TClass("DestR"), BareField)>>,
                     FALSE, << >>)
    [] c = "PosAndOpt" ->
         SchemaClass(<<Declare("debug", TBoolT, SimpleArg),
                       Declare("posfield", TInt, PositionalArg),
                       Declare("intfield", TInt, DefaultArg(VInt(0)))>>,
                     FALSE, << >>)
    [] c = "PosList" ->
         SchemaClass(<<Declare("posfield", TInt, PositionalArg),
                       Declare("debug", TBoolT, SimpleArg),
                       Declare("poslistfield", TList(TInt), PositionalArg)>>,
                     FALSE, << >>)
    [] c = "GroupFirst" ->
         SchemaClass(<<Declare("inner", TClass("PosNum"), BareField),
                       Declare("posfield", TInt, PositionalArg)>>,
                     FALSE, << >>)
    [] c = "Checks" ->
         SchemaClass(<<Declare("a_opts", TClass("SubmodeC"), BareField),
                       Declare("loglevel", TClass("TopV"), BareField),
                       Declare("anum", TInt, DefaultArg(VInt(0)))>>,
                     FALSE,
                     <<NonNegative("validate_twice", "anum",
                                   "anum is negative"),
                       NonNegative("validate_my_config", "anum",
                                   "anum must be >= 0")>>)
    [] c = "TopT" ->
         SchemaClass(<<Declare("tnum", TInt, DefaultArg(VInt(0)))>>, FALSE,
                     << >>)
    [] c = "SubmodeT" ->
         \* a submode with a field named as the field of TopT
         SchemaClass(<<Declare("tnum", TInt, DefaultArg(VInt(1)))>>, FALSE,
                     << >>)
    [] c = "Holder" ->
         \* a schema whose nested value is what a group transform returned
         SchemaClass(<<Declare("child", TClass("Node"), BareField)>>, FALSE,
                     << >>)
    [] c = "Pair" ->
         [SchemaClass(<<Declare("a_opts", TClass("Node"), BareField),
                        Declare("loglevel", TClass("Node"), BareField)>>,
                      FALSE, << >>) EXCEPT !.configgroup = FALSE]
    [] c = "Node" ->
         [SchemaClass(<<Declare("anum", TInt, BareField),
                        Declare("child", TClass("Node"), BareField)>>,
                      FALSE,
                      <<NonNegative("validate_my_config", "anum",
                                    "anum must be >= 0")>>)
            EXCEPT !.configgroup = FALSE]
    [] c = "Plain" ->
         \* a class that was not given the dataclass decorator
         [SchemaClass(<< >>, FALSE, << >>) EXCEPT !.dataclass = FALSE]
    [] c = "Gen" ->
         SchemaClass(<<genField>>, FALSE, << >>)
    [] c = "Nest1" ->
         SchemaClass(<<Declare("child", TClass("Natural"), BareField)>>,
                     FALSE, << >>)
    [] c = "Nest2" ->
         SchemaClass(<<Declare("group", TClass("Nest1"), BareField)>>,
                     FALSE, << >>)
    [] c = "StrSub" ->
         SchemaClass(<<Declare("child", TStr,
                               cfgtransform(TClass("Natural"), Fn("str")))>>,
                     FALSE, << >>)
    [] c = "Checked" ->
         SchemaClass(<<Declare("anum", TInt, SimpleArg)>>, FALSE,
                     <<NonNegative("validate_my_config", "anum",
                                   "checked anum must be >= 0")>>)
    [] c = "Swap" ->
         SchemaClass(<<Declare("checked", TClass("Checked"),
                               cfgtransform(TClass("Natural"),
                                            Fn("checked")))>>,
                     FALSE, << >>)
    [] c = "LegacyGen" ->
         SchemaClass(<<genField>>, FALSE, << >>)
    [] c = "LegacyMEGroupConfig" ->
         SchemaClass(<<Declare("anum", TInt, simplefield(Help, VInt(0))),
                       Declare("apple", TStr, simplefield(Help, VStr("no")))>>,
                     FALSE, << >>)
    [] c = "LegacyTopLevelConfig" ->
         SchemaClass(<<Declare("a_opts", TClass("LegacyMEGroupConfig"),
                               mutually_exclusive_group)>>, FALSE, << >>)
    [] c = "LegacyTop" ->
         SchemaClass(<<Declare("debug", TBoolT, store_truefield(Help))>>,
                     FALSE, << >>)
    [] c = "LegacySubmodeA" ->
         SchemaClass(<<Declare("anum", TInt, simplefield(Help, None))>>,
                     FALSE, << >>)
    [] c = "LegacySubmodeB" ->
         SchemaClass(<<Declare("bnum", TInt, simplefield(Help, None))>>,
                     FALSE, << >>)

\* the class object a name is bound to
ClassDef(c) == classes[c]

\* dataclasses.fields(metatype)
fields(metatype) == ClassDef(metatype).fields

\* _is_configcls_field
_is_configcls_field(field) ==
  LET extraconfig == DictGet(field.metadata, CFG_METADATA_FIELD, None)
  IN IF extraconfig # None /\ extraconfig.class = "ConfigClassTransform"
     THEN TRUE
     ELSE field.type.k = "class" /\ ClassDef(field.type.n).configgroup

\* Specification.from_class, with _spec_from_field for the nested fields
RECURSIVE from_class(_, _)
from_class(metatype, cfgtr) ==
  LET IsMember(f) == ~_is_configcls_field(f)
      IsSub(f) == _is_configcls_field(f)
      _spec_from_field(field) ==
        LET extraconfig == DictGet(field.metadata, CFG_METADATA_FIELD, None)
            type_ == IF extraconfig # None
                        /\ extraconfig.class = "ConfigClassTransform"
                     THEN extraconfig.transform_type
                     ELSE field.type
        IN from_class(type_.n,
                      IF extraconfig # None THEN extraconfig.transform
                      ELSE None)
      Members(mfields) ==
        [i \in 1..Len(mfields) |-> _specitem_from_field(mfields[i])]
      Subs(sfields) ==
        [i \in 1..Len(sfields) |-> _spec_from_field(sfields[i])]
      \* cls(metatype, members, subspecs, transform)
      Make(members, sfields, subs) ==
        IF FirstExc(members) # None THEN FirstExc(members)
        ELSE IF FirstExc(subs) # None THEN FirstExc(subs)
        ELSE [metatype |-> metatype, members |-> members,
              subspecs |-> [i \in 1..Len(sfields) |->
                              [name |-> sfields[i].name, spec |-> subs[i]]],
              transform |-> cfgtr]
      Nested(members, sfields) == Make(members, sfields, Subs(sfields))
      Split(fs) == Nested(Members(SelectSeq(fs, IsMember)),
                          SelectSeq(fs, IsSub))
  IN Split(fields(metatype))

(***************************************************************************)
(* The parsing engine (argparse), as the package uses it: add_argument,    *)
(* add_argument_group, add_mutually_exclusive_group, add_subparsers,       *)
(* parse_args, parse_known_args and error.                                 *)
(***************************************************************************)
\* the tokens an argv may hold that int() converts
IntOf == [t \in {"0", "1", "5", "-1"} |->
            CASE t = "0" -> 0 [] t = "1" -> 1 [] t = "5" -> 5 [] t = "-1" -> 0 - 1]

\* strings that begin with "-" and are no number
DashStrings ==
  {"--" \o Hyphenated(n) : n \in DOMAIN NameWords}
    \cup {"--" \o n : n \in DOMAIN NameWords} \cup {"--unknown", "-c"}

EmptyParser ==
  [actions |-> << >>, ngroups |-> 0, defaults |-> << >>, exc |-> None]

\* the container add_argument is called on: the mutually exclusive groups
\* an action added to it joins
ParserContainer == {}

\* type(token) as the engine applies a converter; a failure is a usage error
Convert(type, token) ==
  IF type = None THEN VStr(token)
  ELSE IF type = TInt
  THEN IF token \in DOMAIN IntOf THEN VInt(IntOf[token])
       ELSE Raise("usage", "invalid int value")
  ELSE IF type = TStr THEN VStr(token)
  ELSE IF type = TBoolT THEN VBool(token # "")
  ELSE IF type = TNoneType THEN Raise("usage", "invalid NoneType value")
  ELSE IF get_origin(type) = "Union"
  THEN Raise("usage", "invalid Union value")
  ELSE Raise("usage", "invalid value")

\* parser.add_argument(*optnames, **kwargs) on a container
add_argument(parser, container, optnames, kwargs) ==
  LET positional == Len(optnames) = 1 /\ optnames[1] \notin DashStrings
      actionkind == IF "action" \in DOMAIN kwargs THEN kwargs["action"].str
                    ELSE "store"
      isflag == actionkind \in {"store_true", "store_false"}
      nargs == IF isflag THEN "0"
               ELSE IF "nargs" \in DOMAIN kwargs THEN kwargs["nargs"].str
               ELSE "None"
      required ==
        IF positional THEN nargs \notin {"?", "*"}
                           \/ (nargs = "*" /\ "default" \notin DOMAIN kwargs)
        ELSE IF "required" \in DOMAIN kwargs THEN kwargs["required"].bool
        ELSE FALSE
      default ==
        IF "default" \in DOMAIN kwargs THEN kwargs["default"]
        ELSE IF actionkind = "store_true" THEN VBool(FALSE)
        ELSE IF actionkind = "store_false" THEN VBool(TRUE)
        ELSE None
      new == [dest |-> IF positional THEN optnames[1]
                       ELSE IF "dest" \in DOMAIN kwargs THEN kwargs["dest"].str
                       ELSE optnames[1],
              option_strings |-> IF positional THEN << >> ELSE optnames,
              nargs |-> nargs,
              type |-> IF "type" \in DOMAIN kwargs THEN kwargs["type"].type
                       ELSE None,
              default |-> default,
              required |-> required,
              action |-> actionkind,
              choices |-> IF "choices" \in DOMAIN kwargs THEN kwargs["choices"]
                          ELSE None,
              mutex |-> container,
              parsers |-> << >>]
      fail(kind, msg) == [parser EXCEPT !.exc = Raise(kind, msg)]
  IN IF parser.exc # None THEN parser
     ELSE IF positional /\ "dest" \in DOMAIN kwargs
     THEN fail("ValueError", "dest supplied twice for positional argument")
     ELSE IF positional /\ "required" \in DOMAIN kwargs
     THEN fail("TypeError", "'required' is an invalid argument for positionals")
     ELSE IF isflag /\ DOMAIN kwargs \cap {"type", "nargs", "choices"} # {}
     THEN fail("TypeError", "unexpected keyword argument")
     ELSE IF \E i \in 1..Len(parser.actions) :
               \E j \in 1..Len(parser.actions[i].option_strings) :
                 \E k \in 1..Len(new.option_strings) :
                   parser.actions[i].option_strings[j] = new.option_strings[k]
     THEN fail("ArgumentError", "conflicting option string")
     ELSE IF container # {} /\ required
     THEN fail("ValueError", "mutually exclusive arguments must be optional")
     ELSE [parser EXCEPT !.actions = Append(@, new)]

\* parser.add_argument_group(): a plain group; its actions join no
\* mutually exclusive group, whatever the container it was made on
add_argument_group(parser, container) ==
  [parser |-> parser, container |-> {}]

\* parser.add_mutually_exclusive_group(): a fresh group inside the container
add_mutually_exclusive_group(parser, container) ==
  [parser |-> [parser EXCEPT !.ngroups = @ + 1],
   container |-> container \cup {parser.ngroups + 1}]

\* the option strings the parser knows
OptionStrings(parser) ==
  UNION {{parser.actions[i].option_strings[j] :
                 j \in 1..Len(parser.actions[i].option_strings)} :
              i \in 1..Len(parser.actions)}

\* the action an option string selects
ActionOf(parser, token) ==
  CHOOSE i \in 1..Len(parser.actions) :
    \E j \in 1..Len(parser.actions[i].option_strings) :
      parser.actions[i].option_strings[j] = token

\* a token the engine reads as an option ("O"), known or not; every other
\* token, a negative number included, is an argument ("A")
IsOptionToken(parser, token) ==
  token \in OptionStrings(parser) \/ token \in DashStrings

\* index of the first option token at or after i, 0 when there is none
RECURSIVE NextOption(_, _, _)
NextOption(parser, args, i) ==
  IF i > Len(args) THEN 0
  ELSE IF IsOptionToken(parser, args[i]) THEN i
  ELSE NextOption(parser, args, i + 1)

\* number of consecutive argument tokens from index i
RECURSIVE RunOfArgs(_, _, _)
RunOfArgs(parser, args, i) ==
  IF i > Len(args) \/ IsOptionToken(parser, args[i]) THEN 0
  ELSE 1 + RunOfArgs(parser, args, i + 1)

\* fewest tokens an action takes
MinArgs(nargs) == IF nargs \in {"*", "?", "0"} THEN 0 ELSE 1

RECURSIVE SumMin(_, _, _)
SumMin(parser, idxs, k) ==
  IF k = 0 THEN 0
  ELSE MinArgs(parser.actions[idxs[k]].nargs) + SumMin(parser, idxs, k - 1)

\* converted values of tokens args[from..from+count-1], or the first failure
RECURSIVE ConvertAll(_, _, _, _)
ConvertAll(type, args, from, count) ==
  IF count = 0 THEN << >>
  ELSE <<Convert(type, args[from])>>
         \o ConvertAll(type, args, from + 1, count - 1)

InChoices(choices, v) ==
  choices = None \/ \E i \in 1..Len(choices.list) : choices.list[i] = v

RECURSIVE parse_known_args(_, _)
RECURSIVE TakeAction(_, _, _, _, _, _)
RECURSIVE ConsumePositionals(_, _, _)
RECURSIVE ParseLoop(_, _, _)

\* take_action: convert, check choices and exclusivity, store
TakeAction(parser, args, st, ai, from, count) ==
  LET a == parser.actions[ai]
      conflict == \E other \in st.seen :
                    /\ other # ai
                    /\ parser.actions[other].mutex \cap a.mutex # {}
      seen == st.seen \cup {ai}
      fail(msg) == [st EXCEPT !.err = Raise("usage", msg)]
      store(v) == [st EXCEPT !.seen = seen, !.ns = (a.dest :> v) @@ @]
      \* the namespace and the extras the selected subparser hands back
      Merge(r) ==
        IF r.err # None THEN [st EXCEPT !.err = r.err]
        ELSE [st EXCEPT !.seen = seen,
                        !.ns = r.ns @@ @,
                        !.subextras = @ \o r.extras]
      Take(vals) ==
        IF FirstExc(vals) # None THEN fail(FirstExc(vals).msg)
        ELSE IF \E i \in 1..Len(vals) : ~InChoices(a.choices, vals[i])
        THEN fail("invalid choice")
        ELSE IF conflict THEN fail("not allowed with argument")
        ELSE CASE a.action = "store_true" -> store(VBool(TRUE))
               [] a.action = "store_false" -> store(VBool(FALSE))
               [] a.action = "parsers" ->
                    LET found == {i \in 1..Len(a.parsers) :
                                    a.parsers[i].name = args[from]}
                    IN IF found = {} THEN fail("invalid choice")
                       ELSE Merge(parse_known_args(
                                    a.parsers[CHOOSE i \in found : TRUE].parser,
                                    SubSeq(args, from + 1, Len(args))))
               [] a.action = "store" ->
                    IF a.nargs = "None" THEN store(vals[1])
                    ELSE IF a.nargs = "?"
                    THEN store(IF count = 0 THEN a.default ELSE vals[1])
                    ELSE IF a.nargs = "*" /\ count = 0
                            /\ a.option_strings = << >>
                    THEN store(IF a.default # None THEN a.default
                               ELSE VList(<< >>))
                    ELSE store(VList(vals))
  IN Take(ConvertAll(a.type, args, from, count))

\* consume_positionals: match as many of the remaining positionals as the
\* run of argument tokens at st.i allows, greedily from the left
ConsumePositionals(parser, args, st) ==
  LET ai == st.pos[1]
      a == parser.actions[ai]
      \* tokens the first positional takes when k positionals share n tokens
      Count(n, k) ==
        LET later == SumMin(parser, st.pos, k) - MinArgs(a.nargs)
        IN CASE a.nargs = "PARSER" -> Len(args) - st.i + 1
             [] a.nargs \in {"+", "*"} -> n - later
             [] a.nargs = "?" -> IF n - later >= 1 THEN 1 ELSE 0
             [] OTHER -> 1
      Rest(k, count, st1) ==
        IF st1.err # None THEN st1
        ELSE IF k = 1
        THEN [st1 EXCEPT !.i = st.i + count, !.pos = Tail(st.pos)]
        ELSE ConsumePositionals(parser, args,
               [st1 EXCEPT !.i = st.i + count, !.pos = Tail(st.pos)])
      Take(k, count) ==
        Rest(k, count, TakeAction(parser, args, st, ai, st.i, count))
      Match(n, k) == IF k = 0 THEN st ELSE Take(k, Count(n, k))
      Most(n) ==
        LET ks == {k \in 0..Len(st.pos) : SumMin(parser, st.pos, k) <= n}
        IN Match(n, CHOOSE x \in ks : \A y \in ks : y <= x)
  IN Most(RunOfArgs(parser, args, st.i))

\* consume_optional: the option at st.i and the argument tokens it takes
ConsumeOptional(parser, args, st) ==
  LET Take(ai, n) ==
        LET a == parser.actions[ai]
            count == CASE a.nargs = "0" -> 0
                       [] a.nargs = "None" -> 1
                       [] a.nargs = "?" -> IF n >= 1 THEN 1 ELSE 0
                       [] OTHER -> n
        IN IF a.nargs = "None" /\ n < 1
           THEN [st EXCEPT !.err = Raise("usage", "expected one argument")]
           ELSE IF a.nargs = "+" /\ n < 1
           THEN [st EXCEPT !.err =
                       Raise("usage", "expected at least one argument")]
           ELSE [TakeAction(parser, args, st, ai, st.i + 1, count)
                   EXCEPT !.i = st.i + 1 + count]
  IN IF args[st.i] \notin OptionStrings(parser)
     THEN [st EXCEPT !.extras = Append(@, args[st.i]), !.i = st.i + 1]
     ELSE Take(ActionOf(parser, args[st.i]),
               RunOfArgs(parser, args, st.i + 1))

\* the main loop of _parse_known_args
ParseLoop(parser, args, st) ==
  LET \* no option is left: the positionals, then the extras
      AtEnd(st1) ==
        IF st1.err # None THEN st1
        ELSE [st1 EXCEPT !.extras = @ \o SubSeq(args, st1.i, Len(args)),
                         !.i = Len(args) + 1]
      \* argument tokens stand before the next option
      Before(nextO, st1) ==
        IF st1.err # None THEN st1
        ELSE IF st1.i > st.i THEN ParseLoop(parser, args, st1)
        ELSE ParseLoop(parser, args,
               ConsumeOptional(parser, args,
                 [st1 EXCEPT !.extras = @ \o SubSeq(args, st1.i, nextO - 1),
                             !.i = nextO]))
      Scan(nextO) ==
        IF nextO = 0 THEN AtEnd(ConsumePositionals(parser, args, st))
        ELSE IF st.i # nextO
        THEN Before(nextO, ConsumePositionals(parser, args, st))
        ELSE ParseLoop(parser, args, ConsumeOptional(parser, args, st))
  IN IF st.err # None THEN st
     ELSE Scan(NextOption(parser, args, st.i))

\* defaults of the actions never seen: a string default goes through the
\* converter; an unseen required action is a usage error
RECURSIVE FinishUnseen(_, _, _)
FinishUnseen(parser, st, i) ==
  IF i > Len(parser.actions) \/ st.err # None THEN st
  ELSE LET a == parser.actions[i]
       IN IF i \in st.seen THEN FinishUnseen(parser, st, i + 1)
          ELSE IF a.required
          THEN [st EXCEPT !.err =
                      Raise("usage", "the following arguments are required")]
          ELSE IF IsStr(a.default) /\ a.action = "store"
                  /\ a.dest \in DOMAIN st.ns /\ st.ns[a.dest] = a.default
          THEN LET v == Convert(a.type, a.default.str)
               IN IF IsExc(v) THEN [st EXCEPT !.err = v]
                  ELSE FinishUnseen(parser,
                         [st EXCEPT !.ns = (a.dest :> v) @@ @], i + 1)
          ELSE FinishUnseen(parser, st, i + 1)

\* the namespace before any token is read: each action's default under its
\* dest (the first action to name a dest wins), then the parser's defaults
RECURSIVE InitialNamespace(_, _, _)
InitialNamespace(parser, ns, i) ==
  IF i > Len(parser.actions) THEN ns @@ parser.defaults
  ELSE LET a == parser.actions[i]
       IN InitialNamespace(parser,
            IF a.action = "parsers" THEN ns ELSE ns @@ (a.dest :> a.default),
            i + 1)

\* parser.parse_known_args(args): [ns, extras, err]
parse_known_args(parser, args) ==
  LET positionals == SelectSeq([i \in 1..Len(parser.actions) |-> i],
                               LAMBDA i : parser.actions[i].option_strings = << >>)
      st0 == [i |-> 1, pos |-> positionals, seen |-> {},
              ns |-> InitialNamespace(parser, << >>, 1),
              extras |-> << >>, subextras |-> << >>, err |-> None]
      Result(st2) ==
        [ns |-> st2.ns, extras |-> st2.extras \o st2.subextras,
         err |-> st2.err]
  IN Result(FinishUnseen(parser, ParseLoop(parser, args, st0), 1))

\* parser.parse_args(args): unknown tokens are a usage error
parse_args_engine(parser, args) ==
  LET Known(r) ==
        IF r.err = None /\ r.extras # << >>
        THEN [r EXCEPT !.err = Raise("usage", "unrecognized arguments")]
        ELSE r
  IN Known(parse_known_args(parser, args))

(***************************************************************************)
(* cfgclasses/argspec.py: Specification.add_to_parser and                  *)
(* Specification.construct_from_namespace.                                 *)
(***************************************************************************)
\* ConfigGroup.add_argument_group
ConfigGroup_add_argument_group(parser, container) ==
  add_argument_group(parser, container)

\* the add_argument_group of a class marked mutually exclusive
MutuallyExclusive_add_argument_group(parser, container) ==
  add_mutually_exclusive_group(parser, container)

\* SpecificationItem.add_to_parser
SpecificationItem_add_to_parser(item, parser, container) ==
  add_argument(parser, container, get_optnames(item), get_kwargs(item))

RECURSIVE Specification_add_to_parser(_, _, _)
RECURSIVE AddMembers(_, _, _, _)
RECURSIVE AddSubspecs(_, _, _, _)

AddMembers(members, i, parser, container) ==
  IF i > Len(members) THEN parser
  ELSE AddMembers(members, i + 1,
         SpecificationItem_add_to_parser(members[i], parser, container),
         container)

AddSubspecs(subspecs, i, parser, container) ==
  IF i > Len(subspecs) THEN parser
  ELSE AddSubspecs(subspecs, i + 1,
         Specification_add_to_parser(subspecs[i].spec, parser, container),
         container)

\* Specification.add_to_parser
Specification_add_to_parser(spec, parser, container) ==
  LET Fill(group) ==
        AddSubspecs(spec.subspecs, 1,
          AddMembers(spec.members, 1, group.parser, group.container),
          group.container)
      Into(class) ==
        IF ~class.configgroup
        THEN [parser EXCEPT !.exc =
                Raise("AttributeError", "no attribute 'add_argument_group'")]
        ELSE Fill(IF class.exclusive
                  THEN MutuallyExclusive_add_argument_group(parser, container)
                  ELSE ConfigGroup_add_argument_group(parser, container))
  IN IF parser.exc # None THEN parser
     ELSE Into(ClassDef(spec.metatype))

\* extract_value_from_namespace that forgets the transform
extract_value_from_namespace_raw(item, namespace) ==
  IF item.name \notin DOMAIN namespace
  THEN Raise("AttributeError", "'Namespace' object has no attribute")
  ELSE namespace[item.name]

\* SpecificationItem.extract_value_from_namespace
extract_value_from_namespace(item, namespace) ==
  IF item.name \notin DOMAIN namespace
  THEN Raise("AttributeError", "'Namespace' object has no attribute")
  ELSE ApplyTransform(item.transform.fn, namespace[item.name])

\* an instance of a schema class: metatype(**kwargs)
Instance(metatype, kwargs) == [obj |-> metatype, f |-> kwargs]
IsInstance(v) == "obj" \in DOMAIN v

\* a subspec's value stored without its transform
GroupTransform_dropped(subspec, built) == built

\* (subspec.transform or (lambda x: x))(built)
GroupTransform(subspec, built) ==
  IF subspec.transform # None
  THEN ApplyTransform(subspec.transform.fn, built)
  ELSE built

\* Specification.construct_from_namespace that passes the constructor the
\* keywords of the members alone
construct_from_namespace_members(spec, namespace) ==
  LET Call(kwargs, fs) ==
        IF DOMAIN kwargs # {fs[i].name : i \in 1..Len(fs)}
        THEN Raise("TypeError",
                   "__init__() got unexpected or missing arguments")
        ELSE Instance(spec.metatype, kwargs)
      Build(mvals) ==
        IF FirstExc(mvals) # None THEN FirstExc(mvals)
        ELSE Call([n \in {spec.members[i].name : i \in 1..Len(spec.members)} |->
                     mvals[CHOOSE i \in 1..Len(spec.members) :
                             spec.members[i].name = n]],
                  fields(spec.metatype))
  IN Build([i \in 1..Len(spec.members) |->
              extract_value_from_namespace(spec.members[i], namespace)])

\* Specification.construct_from_namespace
RECURSIVE construct_from_namespace(_, _)
construct_from_namespace(spec, namespace) ==
  LET mnames == {spec.members[i].name : i \in 1..Len(spec.members)}
      snames == {spec.subspecs[i].name : i \in 1..Len(spec.subspecs)}
      Transformed(built) ==
        [i \in 1..Len(spec.subspecs) |->
           IF IsExc(built[i]) THEN built[i]
           ELSE GroupTransform(spec.subspecs[i].spec, built[i])]
      \* self.metatype(**kwargs)
      Call(kwargs, fs) ==
        IF DOMAIN kwargs # {fs[i].name : i \in 1..Len(fs)}
        THEN Raise("TypeError",
                   "__init__() got unexpected or missing arguments")
        ELSE Instance(spec.metatype, kwargs)
      Build(mvals, svals) ==
        IF FirstExc(mvals) # None THEN FirstExc(mvals)
        ELSE IF FirstExc(svals) # None THEN FirstExc(svals)
        ELSE Call([n \in mnames \cup snames |->
                     IF n \in snames
                     THEN svals[CHOOSE i \in 1..Len(spec.subspecs) :
                                  spec.subspecs[i].name = n]
                     ELSE mvals[CHOOSE i \in 1..Len(spec.members) :
                                  spec.members[i].name = n
                                  /\ \A j \in i + 1..Len(spec.members) :
                                       spec.members[j].name # n]],
                  fields(spec.metatype))
  IN Build([i \in 1..Len(spec.members) |->
              extract_value_from_namespace(spec.members[i], namespace)],
           Transformed(
             [i \in 1..Len(spec.subspecs) |->
                construct_from_namespace(spec.subspecs[i].spec, namespace)]))

(***************************************************************************)
(* cfgclasses/validation.py: the validation pass.                          *)
(***************************************************************************)
\* every attribute name of the schemas, in the order dir() lists them
Alphabetical ==
  <<"a_b", "a_opts", "anum", "apple", "bnum", "checked", "child", "cnum",
    "debug", "group", "inner", "intfield", "loglevel", "natural", "opt_a",
    "p_q", "posfield", "poslistfield", "quiet", "r_s", "tnum",
    "validate_my_config", "validate_twice">>

\* calling one validator-marked method on an instance: None, or what it raises
CallValidator(v, inst) ==
  LET x == inst.f[v.field]
  IN IF IsInt(x)
     THEN IF x.int < 0 THEN Raise("ValueError", v.msg) ELSE None
     ELSE IF IsBool(x) THEN None
     ELSE Raise("TypeError", "'<' not supported")

\* the validator-marked methods of an instance, in dir() order
ValidatorsOf(inst) ==
  LET Sorted(vs) ==
        SelectSeq(
          [i \in 1..Len(Alphabetical) |->
             IF \E j \in 1..Len(vs) : vs[j].name = Alphabetical[i]
             THEN vs[CHOOSE j \in 1..Len(vs) : vs[j].name = Alphabetical[i]]
             ELSE None],
          LAMBDA v : v # None)
  IN Sorted(ClassDef(inst.obj).validators)

\* _invoke_validators that calls no method
_invoke_validators_none(value) == None

\* _invoke_validators: the first exception a validator raises, or None
_invoke_validators(value) ==
  LET Invoke(vs) == FirstExc([i \in 1..Len(vs) |-> CallValidator(vs[i], value)])
  IN Invoke(ValidatorsOf(value))

\* _validate_nested that stops at the attributes of the top-level object
_validate_nested_shallow(value) ==
  LET attrs == SelectSeq(Alphabetical,
                 LAMBDA n : n \in DOMAIN value.f /\ IsInstance(value.f[n]))
  IN FirstExc([i \in 1..Len(attrs) |-> _invoke_validators(value.f[attrs[i]])])

\* _validate_nested: every dataclass-valued attribute, in dir() order
RECURSIVE _validate_nested(_)
_validate_nested(value) ==
  LET attrs == SelectSeq(Alphabetical,
                 LAMBDA n : n \in DOMAIN value.f /\ IsInstance(value.f[n]))
      Nested(subvalue, own) ==
        IF own # None THEN own ELSE _validate_nested(subvalue)
      Validate(subvalue) == Nested(subvalue, _invoke_validators(subvalue))
  IN FirstExc([i \in 1..Len(attrs) |-> Validate(value.f[attrs[i]])])

\* the loop of _invoke_validators that goes on after a validator raised
invoked_validators_all(value) ==
  LET Calls(vs) ==
        [i \in 1..Len(vs) |->
           [on |-> value, validator |-> vs[i].name,
            raised |-> CallValidator(vs[i], value)]]
  IN Calls(ValidatorsOf(value))

\* the calls the loop of _invoke_validators makes: the validator-marked
\* methods in dir() order, up to the first one that raises
invoked_validators(value) ==
  LET Calls(vs) ==
        LET raising == {i \in 1..Len(vs) : IsExc(CallValidator(vs[i], value))}
            n == IF raising = {} THEN Len(vs)
                 ELSE CHOOSE i \in raising : \A j \in raising : i <= j
        IN [i \in 1..n |->
              [on |-> value, validator |-> vs[i].name,
               raised |-> CallValidator(vs[i], value)]]
  IN Calls(ValidatorsOf(value))

\* what a sequence of calls raised: the first exception, or None
RaisedBy(calls) == FirstExc([i \in 1..Len(calls) |-> calls[i].raised])

\* the calls _validate_nested makes: for every dataclass-valued attribute,
\* in dir() order, its validators and then its own nested attributes; an
\* exception ends the walk
RECURSIVE nested_validators(_)
RECURSIVE NestedFrom(_, _, _)
NestedFrom(value, attrs, i) ==
  LET Deeper(own, deeper) ==
        IF RaisedBy(deeper) # None THEN own \o deeper
        ELSE own \o deeper \o NestedFrom(value, attrs, i + 1)
      Own(subvalue, own) ==
        IF RaisedBy(own) # None THEN own
        ELSE Deeper(own, nested_validators(subvalue))
  IN IF i > Len(attrs) THEN << >>
     ELSE Own(value.f[attrs[i]], invoked_validators(value.f[attrs[i]]))
nested_validators(value) ==
  NestedFrom(value,
             SelectSeq(Alphabetical,
               LAMBDA n : n \in DOMAIN value.f /\ IsInstance(value.f[n])),
             1)

\* the calls validate_post_argparse makes inside its try block
validate_post_argparse_calls(dataclass) ==
  LET Nested(own) ==
        IF RaisedBy(own) # None THEN own
        ELSE own \o nested_validators(dataclass)
  IN Nested(invoked_validators(dataclass))

\* a result with the validator calls made on the way to it, and the two
\* parts of it
Invoking(r, calls) == r @@ [validators |-> calls]
WithoutCalls(r) == [k \in DOMAIN r \ {"validators"} |-> r[k]]
CallsOf(r) == IF "validators" \in DOMAIN r THEN r.validators ELSE << >>

(***************************************************************************)
(* How a call ends: it returns a value, it ends in a usage failure         *)
(* (parser.error: message on stderr, SystemExit(2)), or an exception       *)
(* leaves it.  phases lists the steps the call entered, in order, each     *)
(* with the class it worked on.                                            *)
(***************************************************************************)
Returned(value, phases) ==
  [kind |-> "return", value |-> value, exc |-> None, phases |-> phases]
UsageFailure(msg, phases) ==
  [kind |-> "usage", value |-> None, exc |-> Raise("SystemExit", msg),
   phases |-> phases]
Raised(exc, phases) ==
  [kind |-> "raise", value |-> None, exc |-> exc, phases |-> phases]
NoResult == [kind |-> "none", value |-> None, exc |-> None, phases |-> << >>]

\* the steps of a call on class c, in the order the entry points take them
PhaseNames == <<"compile", "register", "parse", "construct", "validate">>
Step(phase, c) == <<phase, c>>
UpTo(phase, c) ==
  LET n == CHOOSE i \in 1..Len(PhaseNames) : PhaseNames[i] = phase
  IN [i \in 1..n |-> Step(PhaseNames[i], c)]

\* a Python tuple
VTuple(items) == [tuple |-> items]

\* validate_post_argparse that runs no validator
validate_post_argparse_skipped(dataclass) == None

\* validate_post_argparse: None, the message given to parser.error, or the
\* exception that is no ValueError and passes through
validate_post_argparse(dataclass) ==
  LET Error(e) ==
        IF e = None THEN None
        ELSE IF e.exc = "ValueError" THEN Raise("usage", e.msg)
        ELSE e
      Nested(own) ==
        Error(IF own # None THEN own ELSE _validate_nested(dataclass))
  IN Nested(_invoke_validators(dataclass))

(***************************************************************************)
(* cfgclasses/configclass.py: the entry points.                            *)
(***************************************************************************)
\* parse_args(cls, argv), with the validator calls it made
parse_args_invoking(c, args) ==
  LET \* the steps of the call, the last one first
      Validated(ret, checked, calls) ==
        Invoking(IF checked = None THEN Returned(ret, UpTo("validate", c))
                 ELSE IF checked.exc = "usage"
                 THEN UsageFailure(checked.msg, UpTo("validate", c))
                 ELSE Raised(checked, UpTo("validate", c)),
                 calls)
      Constructed(ret) ==
        IF IsExc(ret) THEN Raised(ret, UpTo("construct", c))
        ELSE Validated(ret, validate_post_argparse(ret),
                       validate_post_argparse_calls(ret))
      Parsed(specification, parsed) ==
        IF parsed.err # None
        THEN UsageFailure(parsed.err.msg, UpTo("parse", c))
        ELSE Constructed(construct_from_namespace(specification, parsed.ns))
      Registered(specification, parser) ==
        IF parser.exc # None THEN Raised(parser.exc, UpTo("register", c))
        ELSE Parsed(specification, parse_args_engine(parser, args))
      Compiled(specification) ==
        IF IsExc(specification)
        THEN Raised(specification, UpTo("compile", c))
        ELSE Registered(specification,
               Specification_add_to_parser(specification, EmptyParser,
                                           ParserContainer))
  IN Compiled(from_class(c, None))

\* parse_args(cls, argv)
parse_args(c, args) == WithoutCalls(parse_args_invoking(c, args))

\* an unknown-arguments list that is always empty
UnknownArgs_none(extras) == VList(<< >>)

\* the list[str] of unknown arguments the engine hands back
UnknownArgs(extras) == VList([i \in 1..Len(extras) |-> VStr(extras[i])])

\* Specification.from_class(cls), add_to_parser, parse_args of the engine
\* and construct_from_namespace, as the tests of the Specification use
\* them: the compiled tree and the object built from the raw values
specification_use(c, args) ==
  LET Use(kind, specification, built, exc, phases) ==
        [kind |-> kind, value |-> [spec |-> specification, built |-> built],
         exc |-> exc, phases |-> phases]
      Constructed(specification, ret) ==
        IF IsExc(ret)
        THEN Use("raise", specification, None, ret, UpTo("construct", c))
        ELSE Use("return", specification, ret, None, UpTo("construct", c))
      Parsed(specification, parsed) ==
        IF parsed.err # None
        THEN Use("usage", specification, None,
                 Raise("SystemExit", parsed.err.msg), UpTo("parse", c))
        ELSE Constructed(specification,
                         construct_from_namespace(specification, parsed.ns))
      Registered(specification, parser) ==
        IF parser.exc # None
        THEN Use("raise", specification, None, parser.exc,
                 UpTo("register", c))
        ELSE Parsed(specification, parse_args_engine(parser, args))
      Compiled(specification) ==
        IF IsExc(specification)
        THEN Use("raise", None, None, specification, UpTo("compile", c))
        ELSE Registered(specification,
               Specification_add_to_parser(specification, EmptyParser,
                                           ParserContainer))
  IN Compiled(from_class(c, None))

\* parse_known_args(cls, argv) of cfgclasses/configclass.py, with the
\* validator calls it made
configclass_parse_known_args_invoking(c, args) ==
  LET \* the steps of the call, the last one first
      Validated(ret, unknown_args, checked, calls) ==
        Invoking(IF checked = None
                 THEN Returned(VTuple(<<ret, UnknownArgs(unknown_args)>>),
                               UpTo("validate", c))
                 ELSE IF checked.exc = "usage"
                 THEN UsageFailure(checked.msg, UpTo("validate", c))
                 ELSE Raised(checked, UpTo("validate", c)),
                 calls)
      Constructed(ret, unknown_args) ==
        IF IsExc(ret) THEN Raised(ret, UpTo("construct", c))
        ELSE Validated(ret, unknown_args, validate_post_argparse(ret),
                       validate_post_argparse_calls(ret))
      Parsed(specification, parsed) ==
        IF parsed.err # None
        THEN UsageFailure(parsed.err.msg, UpTo("parse", c))
        ELSE Constructed(construct_from_namespace(specification, parsed.ns),
                         parsed.extras)
      Registered(specification, parser) ==
        IF parser.exc # None THEN Raised(parser.exc, UpTo("register", c))
        ELSE Parsed(specification, parse_known_args(parser, args))
      Compiled(specification) ==
        IF IsExc(specification)
        THEN Raised(specification, UpTo("compile", c))
        ELSE Registered(specification,
               Specification_add_to_parser(specification, EmptyParser,
                                           ParserContainer))
  IN Compiled(from_class(c, None))

\* parse_known_args(cls, argv) of cfgclasses/configclass.py
configclass_parse_known_args(c, args) ==
  WithoutCalls(configclass_parse_known_args_invoking(c, args))

\* parser.add_subparsers() and the add_parser calls made on it: one
\* positional action that hands the rest of argv to the parser named by
\* its first token; it is not required
add_subparsers(parser, subparsers) ==
  IF parser.exc # None THEN parser
  ELSE IF \E i \in 1..Len(parser.actions) : parser.actions[i].action = "parsers"
  THEN [parser EXCEPT !.exc = Raise("usage", "cannot have multiple subparser arguments")]
  ELSE [parser EXCEPT !.actions =
          Append(@, [dest |-> "==SUPPRESS==", option_strings |-> << >>,
                     nargs |-> "PARSER", type |-> None, default |-> None,
                     required |-> FALSE, action |-> "parsers",
                     choices |-> None, mutex |-> {},
                     parsers |-> subparsers])]

\* subparser.set_defaults(**kwargs)
set_defaults(parser, kwargs) == [parser EXCEPT !.defaults = kwargs @@ @]

\* the loop of _add_submode_parsers from submode i on: the specifications
\* and parsers of the submodes, the steps taken, the first exception
RECURSIVE AddSubmodeParsers(_, _, _)
AddSubmodeParsers(submodes_, i, acc) ==
  LET name == submodes_[i].name
      submode == submodes_[i].cls
      subparser == set_defaults(EmptyParser, "submode_name" :> VStr(name))
      Added(subspec, added) ==
        AddSubmodeParsers(submodes_, i + 1,
          [specs |-> Append(acc.specs, [name |-> name, spec |-> subspec]),
           parsers |-> Append(acc.parsers, [name |-> name, parser |-> added]),
           phases |-> acc.phases \o UpTo("register", submode),
           exc |-> added.exc])
      Compiled(subspec) ==
        IF IsExc(subspec)
        THEN [acc EXCEPT !.exc = subspec,
                         !.phases = @ \o UpTo("compile", submode)]
        ELSE Added(subspec,
                   Specification_add_to_parser(subspec, subparser,
                                               ParserContainer))
  IN IF i > Len(submodes_) \/ acc.exc # None THEN acc
     ELSE Compiled(from_class(submode, None))

\* _add_submode_parsers(parser, submodes)
_add_submode_parsers(parser, submodes_) ==
  LET Added(r) ==
        [submode_specs |-> r.specs,
         parser |-> add_subparsers(parser, r.parsers),
         phases |-> r.phases, exc |-> r.exc]
  IN Added(AddSubmodeParsers(submodes_, 1,
             [specs |-> << >>, parsers |-> << >>, phases |-> << >>,
              exc |-> None]))

\* submode_specs looked up by position instead of by name
SpecNamed_first(submode_specs, name) == submode_specs[1].spec

\* submode_specs[name]
SpecNamed(submode_specs, name) ==
  submode_specs[CHOOSE i \in 1..Len(submode_specs) :
                  submode_specs[i].name = name].spec

\* parse_args_with_submodes(cls, argv, submodes), with the validator calls
\* it made
parse_args_with_submodes_invoking(c, args, submodes_) ==
  LET notdata == {i \in 1..Len(submodes_) :
                    ~ClassDef(submodes_[i].cls).dataclass}
      End(checked, phases) ==
        IF checked.exc = "usage" THEN UsageFailure(checked.msg, phases)
        ELSE Raised(checked, phases)
      \* the steps of the call, the last one first
      SubValidated(toplvlcfg, submodecfg, subok, checked2, calls) ==
        Invoking(IF subok # None THEN End(subok, checked2)
                 ELSE Returned(VTuple(<<toplvlcfg, submodecfg>>), checked2),
                 calls)
      TopValidated(selected, toplvlcfg, submodecfg, topok, checked1, calls) ==
        IF topok # None THEN Invoking(End(topok, checked1), calls)
        ELSE SubValidated(toplvlcfg, submodecfg,
               validate_post_argparse(submodecfg),
               checked1 \o <<Step("validate", selected.metatype)>>,
               calls \o validate_post_argparse_calls(submodecfg))
      SubConstructed(selected, toplvlcfg, submodecfg, built2) ==
        IF IsExc(submodecfg) THEN Raised(submodecfg, built2)
        ELSE TopValidated(selected, toplvlcfg, submodecfg,
               validate_post_argparse(toplvlcfg),
               built2 \o <<Step("validate", c)>>,
               validate_post_argparse_calls(toplvlcfg))
      TopConstructed(selected, namespace, toplvlcfg, built1) ==
        IF IsExc(toplvlcfg) THEN Raised(toplvlcfg, built1)
        ELSE SubConstructed(selected, toplvlcfg,
               construct_from_namespace(selected, namespace.ns),
               built1 \o <<Step("construct", selected.metatype)>>)
      Selected(spec, namespace, parsed, selected) ==
        TopConstructed(selected, namespace,
          construct_from_namespace(spec, namespace.ns),
          parsed \o <<Step("construct", c)>>)
      Parsed(spec, sub, namespace, parsed) ==
        IF namespace.err # None THEN UsageFailure(namespace.err.msg, parsed)
        ELSE IF "submode_name" \notin DOMAIN namespace.ns
        THEN UsageFailure("No submode selected", parsed)
        ELSE Selected(spec, namespace, parsed,
               SpecNamed(sub.submode_specs,
                         namespace.ns["submode_name"].str))
      Added(spec, sub) ==
        LET registered == UpTo("register", c) \o sub.phases
        IN IF sub.exc # None THEN Raised(sub.exc, registered)
           ELSE IF sub.parser.exc # None
           THEN Raised(sub.parser.exc, registered)
           ELSE Parsed(spec, sub, parse_args_engine(sub.parser, args),
                       registered \o <<Step("parse", c)>>)
      Registered(spec, parser) ==
        IF parser.exc # None THEN Raised(parser.exc, UpTo("register", c))
        ELSE IF notdata # {}
        THEN Raised(Raise("TypeError", "is not a dataclass"),
                    UpTo("register", c))
        ELSE Added(spec, _add_submode_parsers(parser, submodes_))
      Compiled(spec) ==
        IF IsExc(spec) THEN Raised(spec, UpTo("compile", c))
        ELSE Registered(spec,
               Specification_add_to_parser(spec, EmptyParser,
                                           ParserContainer))
  IN IF submodes_ = << >>
     THEN Raised(Raise("ValueError",
                       "Can't parse_args_with_submodes with no submodes"),
                 << >>)
     ELSE Compiled(from_class(c, None))

\* parse_args_with_submodes(cls, argv, submodes)
parse_args_with_submodes(c, args, submodes_) ==
  WithoutCalls(parse_args_with_submodes_invoking(c, args, submodes_))

\* parse_known_args_with_submodes(cls, argv, submodes), with the validator
\* calls it made
parse_known_args_with_submodes_invoking(c, args, submodes_) ==
  LET notdata == {i \in 1..Len(submodes_) :
                    ~ClassDef(submodes_[i].cls).dataclass}
      End(checked, phases) ==
        IF checked.exc = "usage" THEN UsageFailure(checked.msg, phases)
        ELSE Raised(checked, phases)
      \* the steps of the call, the last one first
      SubValidated(toplvlcfg, submodecfg, unknown_args, subok, checked2, calls) ==
        Invoking(IF subok # None THEN End(subok, checked2)
                 ELSE Returned(VTuple(<<toplvlcfg, submodecfg,
                                        UnknownArgs(unknown_args)>>),
                               checked2),
                 calls)
      TopValidated(selected, toplvlcfg, submodecfg, unknown_args, topok, checked1, calls) ==
        IF topok # None THEN Invoking(End(topok, checked1), calls)
        ELSE SubValidated(toplvlcfg, submodecfg, unknown_args,
               validate_post_argparse(submodecfg),
               checked1 \o <<Step("validate", selected.metatype)>>,
               calls \o validate_post_argparse_calls(submodecfg))
      SubConstructed(selected, namespace, toplvlcfg, submodecfg, built2) ==
        IF IsExc(submodecfg) THEN Raised(submodecfg, built2)
        ELSE TopValidated(selected, toplvlcfg, submodecfg, namespace.extras,
               validate_post_argparse(toplvlcfg),
               built2 \o <<Step("validate", c)>>,
               validate_post_argparse_calls(toplvlcfg))
      TopConstructed(selected, namespace, toplvlcfg, built1) ==
        IF IsExc(toplvlcfg) THEN Raised(toplvlcfg, built1)
        ELSE SubConstructed(selected, namespace, toplvlcfg,
               construct_from_namespace(selected, namespace.ns),
               built1 \o <<Step("construct", selected.metatype)>>)
      Selected(spec, namespace, parsed, selected) ==
        TopConstructed(selected, namespace,
          construct_from_namespace(spec, namespace.ns),
          parsed \o <<Step("construct", c)>>)
      Parsed(spec, sub, namespace, parsed) ==
        IF namespace.err # None THEN UsageFailure(namespace.err.msg, parsed)
        ELSE IF "submode_name" \notin DOMAIN namespace.ns
        THEN UsageFailure("No submode selected", parsed)
        ELSE Selected(spec, namespace, parsed,
               SpecNamed(sub.submode_specs,
                         namespace.ns["submode_name"].str))
      Added(spec, sub) ==
        LET registered == UpTo("register", c) \o sub.phases
        IN IF sub.exc # None THEN Raised(sub.exc, registered)
           ELSE IF sub.parser.exc # None
           THEN Raised(sub.parser.exc, registered)
           ELSE Parsed(spec, sub, parse_known_args(sub.parser, args),
                       registered \o <<Step("parse", c)>>)
      Registered(spec, parser) ==
        IF parser.exc # None THEN Raised(parser.exc, UpTo("register", c))
        ELSE IF notdata # {}
        THEN Raised(Raise("TypeError", "is not a dataclass"),
                    UpTo("register", c))
        ELSE Added(spec, _add_submode_parsers(parser, submodes_))
      Compiled(spec) ==
        IF IsExc(spec) THEN Raised(spec, UpTo("compile", c))
        ELSE Registered(spec,
               Specification_add_to_parser(spec, EmptyParser,
                                           ParserContainer))
  IN IF submodes_ = << >>
     THEN Raised(Raise("ValueError",
                       "Can't parse_args_with_submodes with no submodes"),
                 << >>)
     ELSE Compiled(from_class(c, None))

\* parse_known_args_with_submodes(cls, argv, submodes)
parse_known_args_with_submodes(c, args, submodes_) ==
  WithoutCalls(parse_known_args_with_submodes_invoking(c, args, submodes_))

(***************************************************************************)
(* argspec.py of the first generation: ArgOpts, ArgSpec and ArgGroup.      *)
(***************************************************************************)
ArgSpecNotSpecified == [argspecnotspecified |-> TRUE]

\* ArgOpts(): every option unspecified
ArgOpts ==
  [default |-> ArgSpecNotSpecified, required |-> ArgSpecNotSpecified,
   metavar |-> ArgSpecNotSpecified, choices |-> ArgSpecNotSpecified,
   action |-> ArgSpecNotSpecified, type |-> ArgSpecNotSpecified,
   nargs |-> ArgSpecNotSpecified]

\* ArgOpts.to_kwargs
ArgOpts_to_kwargs(opts) ==
  [k \in {x \in DOMAIN opts : opts[x] # ArgSpecNotSpecified} |-> opts[k]]

\* the nargs step of ArgOpts.from_field without the override
ArgOpts_nargs_kept(field, opts) == opts

\* the last step of ArgOpts.from_field: the nargs override of the metadata
ArgOpts_nargs(field, opts) ==
  IF opts.nargs # ArgSpecNotSpecified
  THEN [opts EXCEPT !.nargs = DictGet(field.metadata, "nargs", @)]
  ELSE IF "nargs" \in DOMAIN field.metadata
  THEN Raise("TypeError", "Can't override nargs for non-list type")
  ELSE opts

\* ArgOpts.from_field
ArgOpts_from_field(field) ==
  LET type_args == get_args(field.type)
      Nargs(meta) == ArgOpts_nargs(field, meta)
      Meta(dflt) ==
        Nargs([dflt EXCEPT
                 !.metavar = DictGet(field.metadata, "metavar",
                                     ArgSpecNotSpecified),
                 !.choices = DictGet(field.metadata, "choices",
                                     ArgSpecNotSpecified)])
      Default(kind) ==
        IF IsExc(kind) THEN kind
        ELSE Meta(IF field.default # MISSING
                  THEN [kind EXCEPT !.default = field.default]
                  ELSE IF field.default_factory # MISSING
                  THEN [kind EXCEPT
                          !.default = CallFactory(field.default_factory)]
                  ELSE [kind EXCEPT !.required = VBool(TRUE)])
  IN Default(
       IF field.type = TBoolT /\ field.default # VBool(TRUE)
       THEN [ArgOpts EXCEPT !.action = VStr("store_true")]
       ELSE IF get_origin(field.type) = "list"
       THEN [ArgOpts EXCEPT !.nargs = VStr("+"),
                            !.type = VType(type_args[1])]
       ELSE IF get_origin(field.type) = "Union"
       THEN IF Len(type_args) = 2
               /\ \E i \in 1..Len(type_args) : type_args[i] = TNoneType
            THEN \* no member of type_args is the object None: the first
                 \* one is taken, NoneType included
                 [ArgOpts EXCEPT !.type = VType(type_args[1]),
                                 !.required = VBool(FALSE)]
            ELSE Raise("TypeError", "Can't handle Union of types")
       ELSE [ArgOpts EXCEPT !.type = VType(field.type)])

\* ArgSpec.from_field
ArgSpec_from_field(field) ==
  LET positional == DictGet(field.metadata, "positional", VBool(FALSE)).bool
      name == Hyphenated(field.name)
      optnames == IF ~positional
                  THEN DictGet(field.metadata, "optnames",
                               [names |-> <<"--" \o name>>]).names
                  ELSE <<name>>
      Make(opts) ==
        IF IsExc(opts) THEN opts
        ELSE [name |-> name,
              help |-> DictGet(field.metadata, "help", VStr("")),
              optnames |-> optnames,
              opts |-> IF positional
                       THEN [opts EXCEPT !.required = ArgSpecNotSpecified]
                       ELSE opts]
  IN Make(ArgOpts_from_field(field))

\* ArgSpec.add_to_parser
ArgSpec_add_to_parser(argspec, parser, container) ==
  LET kwargs == IF argspec.optnames # <<argspec.name>>
                THEN "dest" :> VStr(argspec.name) ELSE << >>
  IN add_argument(parser, container, argspec.optnames,
                  ("help" :> argspec.help)
                  @@ ArgOpts_to_kwargs(argspec.opts) @@ kwargs)

\* ArgGroup.from_class
RECURSIVE ArgGroup_from_class(_, _)
ArgGroup_from_class(configcls, is_mutually_exclusive) ==
  LET isconfigcls(field) ==
        field.type.k = "class" /\ ClassDef(field.type.n).configgroup
      Sub(field, g) ==
        IF IsExc(g) THEN g
        ELSE [sub |-> TRUE, name |-> field.name, type |-> field.type.n,
              group |-> g]
      Member(m) == IF IsExc(m) THEN m ELSE [sub |-> FALSE, spec |-> m]
      Each(fs) ==
        [i \in 1..Len(fs) |->
           IF isconfigcls(fs[i])
           THEN Sub(fs[i],
                    ArgGroup_from_class(
                      fs[i].type.n,
                      DictGet(fs[i].metadata, "mutually_exclusive",
                              VBool(FALSE)).bool))
           ELSE Member(ArgSpec_from_field(fs[i]))]
      Specs(members) == [i \in 1..Len(members) |-> members[i].spec]
      Group(each) ==
        IF FirstExc(each) # None THEN FirstExc(each)
        ELSE [is_mutually_exclusive |-> is_mutually_exclusive,
              members |-> Specs(SelectSeq(each, LAMBDA e : ~e.sub)),
              subgroups |-> SelectSeq(each, LAMBDA e : e.sub)]
  IN Group(Each(fields(configcls)))

RECURSIVE ArgGroup_add_to_parser(_, _, _)
RECURSIVE AddArgSpecs(_, _, _, _)
RECURSIVE AddSubgroups(_, _, _, _)

AddArgSpecs(members, i, parser, container) ==
  IF i > Len(members) THEN parser
  ELSE AddArgSpecs(members, i + 1,
         ArgSpec_add_to_parser(members[i], parser, container), container)

AddSubgroups(subgroups, i, parser, container) ==
  IF i > Len(subgroups) THEN parser
  ELSE AddSubgroups(subgroups, i + 1,
         ArgGroup_add_to_parser(subgroups[i].group, parser, container),
         container)

\* ArgGroup.add_to_parser that makes a plain group of every group
ArgGroup_add_to_parser_plain(arggroup, parser, container) ==
  IF parser.exc # None THEN parser
  ELSE LET group == add_argument_group(parser, container)
           p1 == AddArgSpecs(arggroup.members, 1, group.parser,
                             group.container)
       IN AddSubgroups(arggroup.subgroups, 1, p1, group.container)

\* ArgGroup.add_to_parser
ArgGroup_add_to_parser(arggroup, parser, container) ==
  IF parser.exc # None THEN parser
  ELSE LET group == IF arggroup.is_mutually_exclusive
                    THEN add_mutually_exclusive_group(parser, container)
                    ELSE add_argument_group(parser, container)
           p1 == AddArgSpecs(arggroup.members, 1, group.parser,
                             group.container)
       IN AddSubgroups(arggroup.subgroups, 1, p1, group.container)

\* cls(**kwargs) of a dataclass
New(metatype, kwargs) ==
  LET Call(fs) ==
        IF DOMAIN kwargs # {fs[i].name : i \in 1..Len(fs)}
        THEN Raise("TypeError",
                   "__init__() got unexpected or missing arguments")
        ELSE Instance(metatype, kwargs)
  IN Call(fields(metatype))

\* ArgGroup.extract_args_from_namespace: the kwargs dict, or what getattr
\* or a nested constructor raises
RECURSIVE extract_args_from_namespace(_, _)
extract_args_from_namespace(arggroup, namespace) ==
  LET ms == arggroup.members
      sgs == arggroup.subgroups
      mkeys == {Underscored(ms[i].name) : i \in 1..Len(ms)}
      skeys == {sgs[i].name : i \in 1..Len(sgs)}
      Constructed(inner) ==
        [i \in 1..Len(sgs) |->
           IF IsExc(inner[i]) THEN inner[i] ELSE New(sgs[i].type, inner[i])]
      Keyed(mvals, svals) ==
        IF FirstExc(mvals) # None THEN FirstExc(mvals)
        ELSE IF FirstExc(svals) # None THEN FirstExc(svals)
        ELSE [k \in mkeys \cup skeys |->
                IF k \in skeys
                THEN svals[CHOOSE i \in 1..Len(sgs) :
                             sgs[i].name = k
                             /\ \A j \in i + 1..Len(sgs) : sgs[j].name # k]
                ELSE mvals[CHOOSE i \in 1..Len(ms) :
                             Underscored(ms[i].name) = k
                             /\ \A j \in i + 1..Len(ms) :
                                  Underscored(ms[j].name) # k]]
  IN Keyed([i \in 1..Len(ms) |->
              IF ms[i].name \in DOMAIN namespace
              THEN namespace[ms[i].name]
              ELSE Raise("AttributeError",
                         "'Namespace' object has no attribute")],
           Constructed(
             [i \in 1..Len(sgs) |->
                extract_args_from_namespace(sgs[i].group, namespace)]))

(***************************************************************************)
(* configclass.py of the first generation: the ConfigClass classmethods.   *)
(***************************************************************************)
\* ConfigClass.parse_args
ConfigClass_parse_args(c, args) ==
  LET \* the steps of the call, the last one first
      Constructed(ret) ==
        IF IsExc(ret) THEN Raised(ret, UpTo("construct", c))
        ELSE Returned(ret, UpTo("construct", c))
      Extracted(kwargs) ==
        Constructed(IF IsExc(kwargs) THEN kwargs ELSE New(c, kwargs))
      Parsed(arggroup, namespace) ==
        IF namespace.err # None
        THEN UsageFailure(namespace.err.msg, UpTo("parse", c))
        ELSE Extracted(extract_args_from_namespace(arggroup, namespace.ns))
      Registered(arggroup, parser) ==
        IF parser.exc # None THEN Raised(parser.exc, UpTo("register", c))
        ELSE Parsed(arggroup, parse_args_engine(parser, args))
      Compiled(arggroup) ==
        IF IsExc(arggroup) THEN Raised(arggroup, UpTo("compile", c))
        ELSE Registered(arggroup,
               ArgGroup_add_to_parser(arggroup, EmptyParser, ParserContainer))
  IN Compiled(ArgGroup_from_class(c, FALSE))

\* the loop over the submodes in ConfigClass.parse_args_with_submodes
RECURSIVE AddSubmodeGroups(_, _, _)
AddSubmodeGroups(submodes_, i, acc) ==
  LET submode == submodes_[i]
      subparser == set_defaults(EmptyParser,
                                "submode_name" :> VStr(submode.name))
      Added(subgroup, added) ==
        AddSubmodeGroups(submodes_, i + 1,
          [groups |-> Append(acc.groups,
                             [name |-> submode.name, submode |-> submode,
                              group |-> subgroup]),
           parsers |-> Append(acc.parsers,
                              [name |-> submode.name, parser |-> added]),
           phases |-> acc.phases \o UpTo("register", submode.cls),
           exc |-> added.exc])
      Compiled(subgroup) ==
        IF IsExc(subgroup)
        THEN [acc EXCEPT !.exc = subgroup,
                         !.phases = @ \o UpTo("compile", submode.cls)]
        ELSE Added(subgroup,
                   ArgGroup_add_to_parser(subgroup, subparser,
                                          ParserContainer))
  IN IF i > Len(submodes_) \/ acc.exc # None THEN acc
     ELSE Compiled(ArgGroup_from_class(submode.cls, FALSE))

\* ConfigClass.parse_args_with_submodes
ConfigClass_parse_args_with_submodes(c, args, submodes_) ==
  LET \* the steps of the call, the last one first
      SubConstructed(top, submodecfg, built2) ==
        IF IsExc(submodecfg) THEN Raised(submodecfg, built2)
        ELSE Returned(VTuple(<<top, submodecfg>>), built2)
      SubExtracted(selected, top, subkw, built2) ==
        SubConstructed(top,
          IF IsExc(subkw) THEN subkw ELSE New(selected.submode.cls, subkw),
          built2)
      TopConstructed(selected, namespace, top, built1) ==
        IF IsExc(top) THEN Raised(top, built1)
        ELSE SubExtracted(selected, top,
               extract_args_from_namespace(selected.group, namespace.ns),
               built1 \o <<Step("construct", selected.submode.cls)>>)
      TopExtracted(selected, namespace, topkw, built1) ==
        TopConstructed(selected, namespace,
          IF IsExc(topkw) THEN topkw ELSE New(c, topkw), built1)
      Selected(arggroup, namespace, parsed, selected) ==
        TopExtracted(selected, namespace,
          extract_args_from_namespace(arggroup, namespace.ns),
          parsed \o <<Step("construct", c)>>)
      Parsed(arggroup, sub, namespace, parsed) ==
        IF namespace.err # None THEN UsageFailure(namespace.err.msg, parsed)
        ELSE IF "submode_name" \notin DOMAIN namespace.ns
        THEN Raised(Raise("ArgumentError", "No submode selected"), parsed)
        ELSE Selected(arggroup, namespace, parsed,
               sub.groups[CHOOSE i \in 1..Len(sub.groups) :
                            sub.groups[i].name
                              = namespace.ns["submode_name"].str])
      Added(arggroup, parser, sub) ==
        LET registered == UpTo("register", c) \o sub.phases
        IN IF sub.exc # None THEN Raised(sub.exc, registered)
           ELSE Parsed(arggroup, sub,
                  parse_args_engine(add_subparsers(parser, sub.parsers),
                                    args),
                  registered \o <<Step("parse", c)>>)
      Registered(arggroup, parser) ==
        IF parser.exc # None THEN Raised(parser.exc, UpTo("register", c))
        ELSE Added(arggroup, parser,
               AddSubmodeGroups(submodes_, 1,
                 [groups |-> << >>, parsers |-> << >>, phases |-> << >>,
                  exc |-> None]))
      Compiled(arggroup) ==
        IF IsExc(arggroup) THEN Raised(arggroup, UpTo("compile", c))
        ELSE Registered(arggroup,
               ArgGroup_add_to_parser(arggroup, EmptyParser, ParserContainer))
  IN IF submodes_ = << >>
     THEN Raised(Raise("ValueError",
                       "Can't parse_args_with_submodes with no submodes"),
                 << >>)
     ELSE Compiled(ArgGroup_from_class(c, FALSE))

(***************************************************************************)
(* The inputs of a call.                                                   *)
(***************************************************************************)
\* sequences over S of length at most n
RECURSIVE SeqsUpTo(_, _)
SeqsUpTo(S, n) ==
  IF n = 0 THEN {<< >>}
  ELSE LET shorter == SeqsUpTo(S, n - 1)
       IN shorter \cup {Append(q, x) : q \in {r \in shorter : Len(r) = n - 1},
                                       x \in S}

GenName == "a_b"

\* the fields a one-field schema is generated from: every way of calling
\* arg() over a small range of types, defaults, factories and transforms
GenDefaults(t) ==
  CASE t = TInt -> {MISSING, VInt(0), VInt(1), None}
    [] t = TStr -> {MISSING, VStr(""), VStr("x"), None}
    [] t = TBoolT -> {MISSING, VBool(FALSE), VBool(TRUE)}
    [] t = TOptional(TInt) -> {MISSING, None, VInt(1)}

\* Optional-of-int written with None as the first member of the union
NoneFirst(t) == TUnion(<<TNoneType, t>>)

\* the unions a field is declared with that are not Optional-of-T
UnionTypes == {TUnion(<<TInt, TStr>>), TUnion(<<TInt, TStr, TNoneType>>)}

GenFields ==
  {Declare(GenName, t,
           arg(Help, << >>, pos, None, None, d, MISSING, None, None)) :
     <<t, d>> \in UNION {{<<tt, dd>> : dd \in GenDefaults(tt)} :
                          tt \in {TInt, TStr, TBoolT, TOptional(TInt)}},
     pos \in BOOLEAN}
  \cup
  {Declare(GenName, TList(TInt),
           arg(Help, << >>, pos, None, None, MISSING, f, None, None)) :
     f \in {MISSING, Fn("list"), Fn("ones")}, pos \in BOOLEAN}
  \cup
  {Declare(GenName, TInt,
           arg(Help, << >>, pos, None, None, d, MISSING, Fn("succ"), TInt)) :
     d \in {MISSING, VInt(1)}, pos \in BOOLEAN}
  \cup
  {Declare(GenName, TInt,
           arg(Help, << >>, pos, None, None, MISSING, Fn("two"),
               Fn("succ"), TInt)) : pos \in BOOLEAN}
  \cup
  {Declare(GenName, t,
           arg(Help, << >>, pos, None, None, MISSING, Fn("two"), None, None)) :
     t \in {TInt, TOptional(TInt)}, pos \in BOOLEAN}
  \cup
  {Declare(GenName, TInt,
           arg(Help, << >>, pos, None, None, MISSING, f,
               Fn("count"), TList(TInt))) :
     f \in {MISSING, Fn("list")}, pos \in BOOLEAN}
  \cup
  {Declare(GenName, t,
           arg(Help, << >>, pos, None, None, d, MISSING, None, None)) :
     t \in UnionTypes, d \in {MISSING, VInt(1)}, pos \in BOOLEAN}
  \cup
  {Declare(GenName, NoneFirst(TInt),
           arg(Help, << >>, FALSE, None, None, d, MISSING, None, None)) :
     d \in {MISSING, None, VInt(1)}}
  \cup
  {Declare(GenName, t,
           arg(Help, << >>, pos, m, c, d, MISSING, None, None)) :
     t \in {TInt, TOptional(TInt)},
     m \in {None, VStr("N")}, c \in {None, VList(<<VInt(1), VInt(5)>>)},
     d \in {MISSING, VInt(1)}, pos \in BOOLEAN}

\* the option names a generated field may be declared with, and the fields
\* arg() returns when it is given names
GenNames == {<< >>, <<"--opt-a">>}
NamedGenFields(names) ==
  {Declare(GenName, TInt,
           arg(Help, names, pos, None, None, d, MISSING, None, None)) :
     pos \in BOOLEAN, d \in {MISSING, VInt(1)}}

\* the fields a one-field schema of the first generation is generated from:
\* the helpers of fieldtypes.py and dataclasses.field() with a metadata
\* dict, with and without an nargs override
NargsOverride == "nargs" :> VStr("*")
LegacyGenFields ==
  {Declare(GenName, t, simplefield(Help, d)) :
     t \in {TInt, TOptional(TInt), TUnion(<<TInt, TStr>>)},
     d \in {None, VInt(1)}}
  \cup
  {Declare(GenName, TOptional(TInt), optionalfield(Help))}
  \cup
  {Declare(GenName, NoneFirst(TInt), simplefield(Help, d)) :
     d \in {None, VInt(1)}}
  \cup
  {Declare(GenName, TInt, positionalfield(Help, d, None, n)) :
     d \in {None, VInt(1)}, n \in {None, VStr("*")}}
  \cup
  {Declare(GenName, TList(TInt), positionalfield(Help, None, f, n)) :
     f \in {None, Fn("list")}, n \in {None, VStr("*")}}
  \cup
  {Declare(GenName, t,
           DataclassField(MISSING, f, ("help" :> VStr(Help)) @@ n)) :
     <<t, f>> \in {<<TList(TInt), MISSING>>, <<TList(TInt), Fn("list")>>,
                   <<TInt, MISSING>>},
     n \in {<< >>, NargsOverride}}

\* the field a hand-written schema leaves genField at
NoGenField == Declare(GenName, TInt, SimpleArg)

\* the tokens an argv for the class is drawn from
Alphabet(c) ==
  CASE c = "Gen" -> {"--a-b", "5", "-1", "x"}
                    \cup {genNames[i] : i \in 1..Len(genNames)}
    [] c \in {"Natural", "Nest1", "Nest2", "StrSub", "Swap"} ->
         {"--natural", "5", "-1"}
    [] c = "TopLevelConfig" -> {"--anum", "--apple", "5", "x"}
    [] c = "Config" -> {"--debug", "--quiet", "x"}
    [] c = "Top" -> {"--debug", "a", "b", "--anum", "--bnum", "5", "-1"}
    [] c = "TopV" -> {"--tnum", "c", "--cnum", "5", "-1"}
    [] c = "TopT" -> {"--tnum", "c", "t", "--cnum", "5"}
    [] c = "TwoPos" -> {"1", "5", "x"}
    [] c = "TwoFlags" -> {"--bnum", "5"}
    [] c = "TwoDests" -> {"--p-q", "--r-s", "1", "5"}
    [] c = "PosAndOpt" -> {"--debug", "--intfield", "1", "5"}
    [] c = "PosList" -> {"--debug", "1", "5"}
    [] c = "GroupFirst" -> {"1", "5", "x"}
    [] c = "Checks" -> {"--anum", "--cnum", "--tnum", "-1"}
    [] c = "LegacyGen" -> {"--a-b", "5", "-1", "x"}
    [] c = "LegacyTopLevelConfig" -> {"--anum", "--apple", "5", "x"}
    [] c = "LegacyTop" -> {"--debug", "a", "b", "--anum", "--bnum", "5", "-1"}

ArgvsFor(c) ==
  SeqsUpTo(Alphabet(c),
           IF c \in {"Gen", "LegacyGen"} THEN MaxGenArgv ELSE MaxArgv)

\* a token no schema registers
UnknownFlag == "--unknown"

\* the argvs of the parse_known_args calls
KnownArgvsFor(c) ==
  IF c = "Top" THEN ArgvsFor(c)
  ELSE SeqsUpTo(Alphabet(c) \cup {UnknownFlag},
                IF c = "Gen" THEN MaxGenArgv ELSE MaxArgv)

NoSubmodes == << >>
Submode(name, c) == [name |-> name, cls |-> c]

\* the submodes mappings a call may be given
SubmodeMaps ==
  {NoSubmodes,
   <<Submode("a", "SubmodeA")>>,
   <<Submode("a", "SubmodeA"), Submode("b", "SubmodeB")>>,
   <<Submode("b", "SubmodeA"), Submode("a", "SubmodeB")>>}

\* the submodes mappings given with a top-level class
SubmodeMapsFor(c) ==
  IF c = "TopV"
  THEN {<<Submode("c", "SubmodeC")>>,
        <<Submode("c", "SubmodeC"), Submode("p", "Plain")>>}
  ELSE IF c = "TopT"
  THEN {<<Submode("c", "SubmodeC"), Submode("t", "SubmodeT")>>}
  ELSE SubmodeMaps

\* the ConfigSubmode lists a ConfigClass call may be given
SubmodeLists ==
  {NoSubmodes,
   <<Submode("a", "LegacySubmodeA")>>,
   <<Submode("a", "LegacySubmodeA"), Submode("b", "LegacySubmodeB")>>,
   <<Submode("b", "LegacySubmodeA"), Submode("a", "LegacySubmodeB")>>}

\* an attribute that refers to an instance, by the instance's place in
\* objects
Ref(r) == [ref |-> r]
IsRef(v) == "ref" \in DOMAIN v

\* the instances a group transform hands back, under the schema instance
\* that holds them (the first object): a pair of two nodes, a pair that
\* holds one node twice, a node that refers to itself, two nodes that
\* refer to each other
NodeValues == {VInt(5), VInt(0 - 1)}
NoObjects == << >>
ObjectGraphs ==
  {<<Instance("Holder", [child |-> Ref(2)]),
     Instance("Pair", [a_opts |-> Ref(3), loglevel |-> Ref(4)]),
     Instance("Node", [anum |-> x, child |-> None]),
     Instance("Node", [anum |-> y, child |-> None])>> :
     x \in NodeValues, y \in NodeValues}
  \cup
  {<<Instance("Holder", [child |-> Ref(2)]),
     Instance("Pair", [a_opts |-> Ref(3), loglevel |-> Ref(3)]),
     Instance("Node", [anum |-> x, child |-> None])>> : x \in NodeValues}
  \cup
  {<<Instance("Holder", [child |-> Ref(2)]),
     Instance("Node", [anum |-> x, child |-> Ref(2)])>> : x \in NodeValues}
  \cup
  {<<Instance("Holder", [child |-> Ref(2)]),
     Instance("Node", [anum |-> x, child |-> Ref(3)]),
     Instance("Node", [anum |-> y, child |-> Ref(2)])>> :
     x \in NodeValues, y \in NodeValues}

Init ==
  /\ pc = "call"
  /\ result = NoResult
  /\ \/ /\ api = "parse_args"
        /\ cls \in {"Gen", "Natural", "TopLevelConfig", "Config", "Nest1",
                    "Nest2", "StrSub", "Swap", "TwoPos", "TwoFlags",
                    "TwoDests", "PosAndOpt", "PosList", "GroupFirst",
                    "Checks"}
        /\ submodes = NoSubmodes
     \/ /\ api = "parse_known_args"
        /\ cls \in {"Gen", "Natural"}
        /\ submodes = NoSubmodes
     \/ /\ api \in {"parse_args_with_submodes",
                    "parse_known_args_with_submodes"}
        /\ cls \in {"Top", "TopV", "TopT"}
        /\ submodes \in SubmodeMapsFor(cls)
     \/ /\ api = "Specification"
        /\ cls \in {"Gen", "Natural", "Nest2", "Swap", "PosList"}
        /\ submodes = NoSubmodes
     \/ /\ api = "validate_post_argparse"
        /\ cls = "Holder"
        /\ submodes = NoSubmodes
     \/ /\ api = "ConfigClass.parse_args"
        /\ cls \in {"LegacyTopLevelConfig", "LegacyGen"}
        /\ submodes = NoSubmodes
     \/ /\ api = "ConfigClass.parse_args_with_submodes"
        /\ cls = "LegacyTop"
        /\ submodes \in SubmodeLists
  /\ again = NoResult
  /\ validated = << >>
  /\ objects \in (IF api = "validate_post_argparse" THEN ObjectGraphs
                  ELSE {NoObjects})
  /\ frames = << >>
  /\ genNames \in (IF cls = "Gen" /\ api # "Specification" THEN GenNames
                   ELSE {<< >>})
  /\ genField \in (IF cls = "LegacyGen" THEN LegacyGenFields
                   ELSE IF cls # "Gen" THEN {NoGenField}
                   ELSE IF genNames = << >> THEN GenFields
                   ELSE NamedGenFields(genNames))
  /\ classes = [c \in ClassNames |-> ClassTable(c)]
  /\ argv \in (IF api = "validate_post_argparse" THEN {<< >>}
               ELSE IF api \in {"parse_known_args",
                                 "parse_known_args_with_submodes"}
               THEN KnownArgvsFor(cls) ELSE ArgvsFor(cls))

ParseArgs ==
  /\ pc = "call"
  /\ api = "parse_args"
  /\ \E r \in {parse_args_invoking(cls, argv)} :
       /\ result' = WithoutCalls(r)
       /\ validated' = CallsOf(r)
  /\ pc' = "done"
  /\ UNCHANGED <<api, cls, genNames, genField, classes, submodes, argv, again, objects, frames>>

SpecificationUse ==
  /\ pc = "call"
  /\ api = "Specification"
  /\ result' = specification_use(cls, argv)
  /\ pc' = "done"
  /\ UNCHANGED <<api, cls, genNames, genField, classes, submodes, argv, again, validated, objects, frames>>

SpecificationUseAgain ==
  /\ pc = "done"
  /\ api = "Specification"
  /\ again' = specification_use(cls, argv)
  /\ pc' = "again"
  /\ UNCHANGED <<api, cls, genNames, genField, classes, submodes, argv, result, validated, objects, frames>>

ParseKnownArgs ==
  /\ pc = "call"
  /\ api = "parse_known_args"
  /\ \E r \in {configclass_parse_known_args_invoking(cls, argv)} :
       /\ result' = WithoutCalls(r)
       /\ validated' = CallsOf(r)
  /\ pc' = "done"
  /\ UNCHANGED <<api, cls, genNames, genField, classes, submodes, argv, again, objects, frames>>

ParseKnownArgsWithSubmodes ==
  /\ pc = "call"
  /\ api = "parse_known_args_with_submodes"
  /\ \E r \in {parse_known_args_with_submodes_invoking(cls, argv, submodes)} :
       /\ result' = WithoutCalls(r)
       /\ validated' = CallsOf(r)
  /\ pc' = "done"
  /\ UNCHANGED <<api, cls, genNames, genField, classes, submodes, argv, again, objects, frames>>

ParseArgsWithSubmodes ==
  /\ pc = "call"
  /\ api = "parse_args_with_submodes"
  /\ \E r \in {parse_args_with_submodes_invoking(cls, argv, submodes)} :
       /\ result' = WithoutCalls(r)
       /\ validated' = CallsOf(r)
  /\ pc' = "done"
  /\ UNCHANGED <<api, cls, genNames, genField, classes, submodes, argv, again, objects, frames>>

ConfigClassParseArgs ==
  /\ pc = "call"
  /\ api = "ConfigClass.parse_args"
  /\ result' = ConfigClass_parse_args(cls, argv)
  /\ pc' = "done"
  /\ UNCHANGED <<api, cls, genNames, genField, classes, submodes, argv, again, validated, objects, frames>>

ConfigClassParseArgsWithSubmodes ==
  /\ pc = "call"
  /\ api = "ConfigClass.parse_args_with_submodes"
  /\ result' = ConfigClass_parse_args_with_submodes(cls, argv, submodes)
  /\ pc' = "done"
  /\ UNCHANGED <<api, cls, genNames, genField, classes, submodes, argv, again, validated, objects, frames>>

\* the object validate_post_argparse is given
Root == 1

\* the attributes of an object that hold a dataclass instance, in dir()
\* order
DataclassAttrs(object) ==
  SelectSeq(Alphabetical,
            LAMBDA n : n \in DOMAIN object.f /\ IsRef(object.f[n]))

\* _invoke_validators on the object at r: its calls, each with the object
\* it was made on
CallsOn(r) ==
  LET Located(calls) ==
        [i \in 1..Len(calls) |-> [calls[i] EXCEPT !.on = Ref(r)]]
  IN Located(invoked_validators(objects[r]))

\* a call of _validate_nested(value) at the start of its loop
Frame(r) == [obj |-> r, next |-> 1]

\* how validate_post_argparse ends when exc leaves its try block
WalkEnd(exc) ==
  IF exc.exc = "ValueError"
  THEN UsageFailure(exc.msg, <<Step("validate", cls)>>)
  ELSE Raised(exc, <<Step("validate", cls)>>)

\* validate_post_argparse(dataclass, parser): _invoke_validators(dataclass)
\* and the call of _validate_nested(dataclass)
ValidatePostArgparse ==
  /\ pc = "call"
  /\ api = "validate_post_argparse"
  /\ \E calls \in {CallsOn(Root)} :
       /\ validated' = calls
       /\ IF RaisedBy(calls) # None
          THEN /\ result' = WalkEnd(RaisedBy(calls))
               /\ pc' = "done"
               /\ frames' = << >>
          ELSE /\ result' = result
               /\ pc' = "walk"
               /\ frames' = <<Frame(Root)>>
  /\ UNCHANGED <<api, cls, genNames, genField, classes, submodes, argv, again, objects>>

\* one turn of the loop of the innermost call of _validate_nested: the
\* next attribute that holds a dataclass instance has its validators
\* invoked and _validate_nested called on it; after the last attribute the
\* call returns
ValidateNested ==
  /\ pc = "walk"
  /\ api = "validate_post_argparse"
  /\ \E top \in {frames[Len(frames)]} :
       \E attrs \in {DataclassAttrs(objects[top.obj])} :
         IF top.next > Len(attrs)
         THEN /\ frames' = SubSeq(frames, 1, Len(frames) - 1)
              /\ validated' = validated
              /\ IF Len(frames) = 1
                 THEN /\ pc' = "done"
                      /\ result' = Returned(None, <<Step("validate", cls)>>)
                 ELSE /\ pc' = pc
                      /\ result' = result
         ELSE \E subvalue \in {objects[top.obj].f[attrs[top.next]].ref} :
                \E calls \in {CallsOn(subvalue)} :
                  /\ validated' = validated \o calls
                  /\ IF RaisedBy(calls) # None
                     THEN /\ result' = WalkEnd(RaisedBy(calls))
                          /\ pc' = "done"
                          /\ frames' = << >>
                     ELSE IF Len(frames) >= RecursionLimit
                     THEN /\ result' =
                               WalkEnd(Raise("RecursionError",
                                             "maximum recursion depth exceeded"))
                          /\ pc' = "done"
                          /\ frames' = << >>
                     ELSE /\ result' = result
                          /\ pc' = pc
                          /\ frames' =
                               Append([frames EXCEPT ![Len(frames)].next = @ + 1],
                                      Frame(subvalue))
  /\ UNCHANGED <<api, cls, genNames, genField, classes, submodes, argv, again, objects>>

Next ==
  \/ ParseArgs
  \/ SpecificationUse
  \/ SpecificationUseAgain
  \/ ParseKnownArgs
  \/ ParseArgsWithSubmodes
  \/ ParseKnownArgsWithSubmodes
  \/ ConfigClassParseArgs
  \/ ConfigClassParseArgsWithSubmodes
  \/ ValidatePostArgparse
  \/ ValidateNested

Spec == Init /\ [][Next]_vars

(***************************************************************************)
(* The properties checked of the model.                                    *)
(***************************************************************************)
Done == pc = "done"

\* the call returned an instance (or a tuple of instances)
ReturnedValue == Done /\ result.kind = "return"

\* the generated one-field schema and its only field
GenCall == Done /\ api = "parse_args" /\ cls = "Gen"
GenOpts == genField.metadata[CFG_METADATA_FIELD]
GenFlag == "--" \o Hyphenated(GenName)
GenPositional == GenOpts.class = "ConfigOpts"
GenHasTransform == GenOpts.transform # None
GenDeclaresDefault ==
  genField.default # MISSING \/ genField.default_factory # MISSING
GenItem == _specitem_from_field(genField)
GenValue == result.value.f[GenName]
Supplied(flag) == \E i \in 1..Len(argv) : argv[i] = flag
AllInts(tokens) == \A i \in 1..Len(tokens) : tokens[i] \in DOMAIN IntOf

\* C1: parse_args returns an instance only when the validators passed: on
\* the schema {natural: int} whose validator wants natural >= 0, a returned
\* instance satisfies the validator, ["--natural", "-1"] ends in a usage
\* failure that carries the validator's message and returns nothing, and
\* ["--natural", "5"] returns the object with natural = 5.
C1_ValidatorsGateTheResult ==
  (Done /\ api = "parse_args" /\ cls = "Natural") =>
    /\ result.kind = "return" =>
         /\ result.value.obj = "Natural"
         /\ result.value.f["natural"].int >= 0
    /\ (Len(argv) = 2 /\ argv[1] = "--natural" /\ argv[2] \in DOMAIN IntOf) =>
         IF IntOf[argv[2]] < 0
         THEN /\ result.kind = "usage"
              /\ result.exc = Raise("SystemExit", "natural must be >= 0")
              /\ result.value = None
         ELSE /\ result.kind = "return"
              /\ result.value.f["natural"] = VInt(IntOf[argv[2]])

C1_Witness ==
  /\ Done /\ api = "parse_args" /\ cls = "Natural"
  /\ argv = <<"--natural", "-1">>
  /\ result.kind = "usage"
  /\ result.exc.msg = "natural must be >= 0"
  /\ result.phases[Len(result.phases)] = Step("validate", "Natural")

\* C5 (as claimed): a list-of-T field, flag or positional, given no token:
\* without default or default-factory the call is a usage failure, with a
\* default-factory the field takes the factory's value.
C5_ListWithoutTokens ==
  (GenCall /\ genField.type = TList(TInt) /\ argv = << >>) =>
    IF ~GenDeclaresDefault THEN result.kind = "usage"
    ELSE /\ result.kind = "return"
         /\ GenValue = (IF genField.default_factory = Fn("ones")
                        THEN VList(<<VInt(1)>>) ELSE VList(<< >>))

\* C6 (as claimed): an Optional-of-T flag field left out of argv is None
\* whatever default or default-factory it declares.
C6_OmittedOptionalIsNone ==
  (GenCall /\ genField.type = TOptional(TInt) /\ ~GenPositional
   /\ argv = << >>) =>
    /\ result.kind = "return"
    /\ GenValue = None

\* C6 (amended): an Optional-of-T flag field left out of argv never fails
\* the call for being left out; the field is its declared default (or its
\* default-factory's value) when it declares one, and None when it declares
\* none.
C6_OmittedOptionalIsDefault ==
  (GenCall /\ genField.type = TOptional(TInt) /\ ~GenPositional
   /\ ~Supplied(GenFlag)) =>
    /\ argv = << >> => result.kind = "return"
    /\ result.kind = "return" =>
         GenValue = (IF genField.default # MISSING THEN genField.default
                     ELSE IF genField.default_factory # MISSING THEN VInt(2)
                     ELSE None)

C6_Witness ==
  /\ GenCall /\ genField.type = TOptional(TInt) /\ ~GenPositional
  /\ genField.default = VInt(1)
  /\ argv = << >>
  /\ result.kind = "return"
  /\ GenValue = VInt(1)

\* C7: a boolean flag field: absent it is the declared default (False when
\* none is declared), present it is the negation; the flag takes no value
\* token; a returned value is never anything but one of those two.
C7_BoolToggle ==
  (GenCall /\ genField.type = TBoolT /\ ~GenPositional) =>
    LET dflt == genField.default = VBool(TRUE)
    IN /\ GenItem.class = "BoolSpecItem"
       /\ argv = << >> => result.kind = "return" /\ GenValue = VBool(dflt)
       /\ argv = <<GenFlag>> =>
            result.kind = "return" /\ GenValue = VBool(~dflt)
       /\ result.kind = "return" =>
            /\ GenValue \in {VBool(dflt), VBool(~dflt)}
            /\ (GenValue = VBool(~dflt)) <=> Supplied(GenFlag)
            /\ \A i \in 1..Len(argv) : argv[i] = GenFlag
       /\ (\E i \in 1..Len(argv) : argv[i] # GenFlag) => result.kind = "usage"

C7_Witness ==
  /\ GenCall /\ genField.type = TBoolT /\ ~GenPositional
  /\ genField.default = VBool(TRUE)
  /\ argv = <<GenFlag>>
  /\ result.kind = "return"
  /\ GenValue = VBool(FALSE)

\* C8: a Standard-kind field is registered as required exactly when it
\* declares neither default nor default-factory; a declared default of
\* None, 0 or "" is a declared default: the field is not required and,
\* left out, is exactly that value.
C8_StandardRequiredIffNoDefault ==
  (GenCall /\ ~IsExc(GenItem) /\ GenItem.class = "StandardSpecItem") =>
    LET kwargs == get_kwargs(GenItem)
    IN /\ ("required" \in DOMAIN kwargs) <=> ~GenDeclaresDefault
       /\ "required" \in DOMAIN kwargs => kwargs["required"] = VBool(TRUE)
       /\ (argv = << >> /\ ~GenDeclaresDefault) => result.kind = "usage"
       /\ (argv = << >> /\ GenDeclaresDefault /\ ~GenHasTransform) =>
            /\ result.kind = "return"
            /\ GenValue = (IF genField.default # MISSING THEN genField.default
                           ELSE VInt(2))

C8_Witness ==
  /\ GenCall /\ GenItem.class = "StandardSpecItem"
  /\ genField.type = TInt /\ genField.default = None
  /\ argv = << >>
  /\ result.kind = "return"
  /\ GenValue = None

\* C9: with a (transform, transform_type) pair the kind and the converter
\* come from transform_type (transform_type list[int] on a field declared
\* int gives a List kind converting with int), and a supplied value is the
\* transform applied once to the converted raw value (succ: the integer
\* plus one; count: the number of values given).
C9_TransformOfSuppliedValue ==
  (GenCall /\ GenHasTransform) =>
    LET islist == get_origin(GenOpts.transform_type) = "list"
        tokens == IF GenPositional THEN argv ELSE Tail(argv)
        wellformed == /\ argv # << >>
                      /\ GenPositional \/ argv[1] = GenFlag
                      /\ tokens # << >> /\ AllInts(tokens)
                      /\ islist \/ Len(tokens) = 1
    IN /\ genField.type = TInt
       /\ GenItem.class =
            (IF islist
             THEN IF GenPositional THEN "ListPositionalSpecItem"
                  ELSE "ListSpecItem"
             ELSE IF GenPositional THEN "PositionalSpecItem"
                  ELSE "StandardSpecItem")
       /\ GenItem.type = TInt
       /\ wellformed =>
            /\ result.kind = "return"
            /\ GenValue = (IF islist THEN VInt(Len(tokens))
                           ELSE VInt(IntOf[tokens[1]] + 1))

C9_Witness ==
  /\ GenCall /\ GenOpts.transform = Fn("count") /\ ~GenPositional
  /\ argv = <<GenFlag, "5", "-1">>
  /\ result.kind = "return"
  /\ GenValue = VInt(2)

\* C10 (as claimed): with a transform and a default (or default-factory)
\* the compiled descriptor holds the pre-transform default, and a flag left
\* out gives the transform applied exactly once to the declared default
\* (succ on a declared 1: 2; count on a declared []: 0).
C10_DefaultTransformedOnce ==
  (GenCall /\ GenHasTransform /\ GenDeclaresDefault /\ ~GenPositional
   /\ argv = << >>) =>
    /\ GenItem.default = GenOpts.default
    /\ result.kind = "return"
    /\ GenValue = (IF GenOpts.transform = Fn("count")
                   THEN VInt(Len(GenOpts.default.list))
                   ELSE VInt(GenOpts.default.int + 1))

\* calls on the schemas that nest a mutually exclusive group, by parse_args
\* and by ConfigClass.parse_args
ExclusiveCall ==
  /\ Done
  /\ \/ api = "parse_args" /\ cls \in {"TopLevelConfig", "Config"}
     \/ api = "ConfigClass.parse_args" /\ cls = "LegacyTopLevelConfig"
ExclusiveMembers ==
  IF cls = "Config" THEN {"--debug", "--quiet"} ELSE {"--anum", "--apple"}
ExclusiveGroup ==
  result.value.f[IF cls = "Config" THEN "loglevel" ELSE "a_opts"]

SubmodeNames == {submodes[i].name : i \in 1..Len(submodes)}
SubmodeTokens == {i \in 1..Len(argv) : argv[i] \in SubmodeNames}
SubmodeCall ==
  /\ Done
  /\ api \in {"parse_args_with_submodes",
              "ConfigClass.parse_args_with_submodes"}
  /\ submodes # << >>
  /\ \A i \in 1..Len(submodes) : ClassDef(submodes[i].cls).dataclass

\* C3 (as claimed): with at least one declared submode, an argv without a
\* submode token, the empty argv included, always ends in a usage failure.
C3_NoSubmodeIsUsageFailure ==
  (SubmodeCall /\ SubmodeTokens = {}) => result.kind = "usage"

\* the same of parse_args_with_submodes of cfgclasses/configclass.py alone
NoSubmodeIsUsageFailureOfTheFunction ==
  (SubmodeCall /\ api = "parse_args_with_submodes" /\ SubmodeTokens = {}) =>
    /\ result.kind = "usage"
    /\ argv = << >> => result.exc = Raise("SystemExit", "No submode selected")

\* the class registered under a submode name, its required flag, its field
SubmodeClass(name) ==
  submodes[CHOOSE i \in 1..Len(submodes) : submodes[i].name = name].cls
SubmodeFlag(c) == IF c = "SubmodeA" THEN "--anum" ELSE "--bnum"
SubmodeField(c) == IF c = "SubmodeA" THEN "anum" ELSE "bnum"

NestedClasses == {"Nest1", "Nest2", "StrSub", "Swap"}
NestedCall == Done /\ api = "parse_args" /\ cls \in NestedClasses
RawNatural == VInt(IntOf[argv[Len(argv)]])

\* the child class a nested-schema field is compiled from
ChildClass(field) ==
  IF CFG_METADATA_FIELD \in DOMAIN field.metadata
  THEN field.metadata[CFG_METADATA_FIELD].transform_type.n
  ELSE field.type.n

\* the instance of class c built completely from the raw value, each nested
\* field holding its group-level transform applied to the complete child
RECURSIVE BuiltFromRaw(_)
BuiltFromRaw(c) ==
  [obj |-> c,
   f |-> [n \in {fields(c)[i].name : i \in 1..Len(fields(c))} |->
            LET field == fields(c)[CHOOSE i \in 1..Len(fields(c)) :
                                     fields(c)[i].name = n]
            IN IF ~_is_configcls_field(field) THEN RawNatural
               ELSE IF CFG_METADATA_FIELD \in DOMAIN field.metadata
               THEN ApplyTransform(
                      field.metadata[CFG_METADATA_FIELD].transform.fn,
                      BuiltFromRaw(ChildClass(field)))
               ELSE BuiltFromRaw(ChildClass(field))]]

\* C11: for every nested-schema field, construct_from_namespace builds the
\* child instance completely from the raw values and stores the child's
\* group-level transform applied to it, the child itself when no transform
\* is declared: a returned Nest1 holds Natural(natural), a returned Nest2
\* holds Nest1(Natural(natural)), a returned StrSub holds str() of the
\* complete Natural, and a returned Swap holds the Checked made of it.
C11_GroupTransformOnBuiltChild ==
  (NestedCall /\ result.kind = "return") =>
    /\ result.value = BuiltFromRaw(cls)
    /\ cls = "Nest1" =>
         result.value.f["child"] = Instance("Natural", [natural |-> RawNatural])
    /\ cls = "StrSub" =>
         result.value.f["child"] =
           [strof |-> Instance("Natural", [natural |-> RawNatural])]
    /\ cls = "Swap" =>
         result.value.f["checked"] = Instance("Checked", [anum |-> RawNatural])

C11_Witness ==
  /\ NestedCall /\ cls = "StrSub"
  /\ argv = <<"--natural", "5">>
  /\ result.kind = "return"
  /\ result.value =
       Instance("StrSub",
                [child |-> [strof |-> Instance("Natural",
                                               [natural |-> VInt(5)])]])

\* the objects reachable from an object by following field references
RECURSIVE ReachableObjects(_)
ReachableObjects(v) ==
  {v} \cup UNION {ReachableObjects(v.f[n]) :
                    n \in {m \in DOMAIN v.f : IsInstance(v.f[m])}}

\* the messages of the validator-marked methods that fail on the objects
\* reachable from an object
FailingValidators(v) ==
  {ClassDef(o.obj).validators[i].msg :
     <<o, i>> \in {<<oo, ii>> \in ReachableObjects(v) \X (1..1) :
                     /\ ii \in 1..Len(ClassDef(oo.obj).validators)
                     /\ oo.f[ClassDef(oo.obj).validators[ii].field].int < 0}}

\* the call went as far as the validation pass
Validating ==
  \E k \in 1..Len(result.phases) : result.phases[k][1] = "validate"

C12_WitnessSubstituted ==
  /\ NestedCall /\ cls = "Swap"
  /\ argv = <<"--natural", "-1">>
  /\ result = UsageFailure("checked anum must be >= 0",
                           UpTo("validate", "Swap"))

\* a call of one of the two submode entry points of cfgclasses/configclass.py
\* on TopV with the submode c: both classes carry a validator
ValidatedSubmodeCall ==
  /\ Done
  /\ api \in {"parse_args_with_submodes", "parse_known_args_with_submodes"}
  /\ cls = "TopV"

\* the first c of argv selects the submode; the value of a flag among the
\* tokens at the positions given is the token after its last occurrence
SubmodeAt == CHOOSE i \in 1..Len(argv) :
               argv[i] = "c" /\ \A j \in 1..i - 1 : argv[j] # "c"
ValueOfFlag(flag, positions, dflt) ==
  IF \E i \in positions : argv[i] = flag
  THEN IntOf[argv[1 + CHOOSE i \in positions :
                        /\ argv[i] = flag
                        /\ \A j \in positions : argv[j] = flag => j <= i]]
  ELSE dflt
TopValue == ValueOfFlag("--tnum", 1..SubmodeAt - 1, 0)
SubValue == ValueOfFlag("--cnum", SubmodeAt + 1..Len(argv), 0)

\* C13: parse_args_with_submodes and parse_known_args_with_submodes
\* reconstruct both the top-level instance and the selected submode
\* instance and pass each through the validation pass: the call returns
\* the two instances exactly when the validators of both pass, and a
\* failing validator of either ends the call in a usage failure with the
\* validator's message and without a tuple.
C13_BothInstancesValidated ==
  (ValidatedSubmodeCall /\ Validating) =>
    /\ \E k \in 1..Len(result.phases) :
         /\ result.phases[k] = Step("construct", "SubmodeC")
         /\ \E j \in 1..k - 1 : result.phases[j] = Step("construct", "TopV")
    /\ (TopValue >= 0 /\ SubValue >= 0) =>
         /\ result.kind = "return"
         /\ result.value.tuple[1] = Instance("TopV", [tnum |-> VInt(TopValue)])
         /\ result.value.tuple[2] =
              Instance("SubmodeC", [cnum |-> VInt(SubValue)])
         /\ \E k \in 1..Len(result.phases) :
              result.phases[k] = Step("validate", "SubmodeC")
    /\ TopValue < 0 =>
         /\ result.kind = "usage" /\ result.value = None
         /\ result.exc = Raise("SystemExit", "tnum must be >= 0")
    /\ (TopValue >= 0 /\ SubValue < 0) =>
         /\ result.kind = "usage" /\ result.value = None
         /\ result.exc = Raise("SystemExit", "cnum must be >= 0")

\* the validator of the selected submode fails ...
C13_Witness ==
  /\ ValidatedSubmodeCall /\ api = "parse_known_args_with_submodes"
  /\ argv = <<"c", "--cnum", "-1">>
  /\ result.kind = "usage"
  /\ result.exc = Raise("SystemExit", "cnum must be >= 0")

\* ... or the validator of the top-level class does
C13_WitnessTop ==
  /\ ValidatedSubmodeCall /\ api = "parse_args_with_submodes"
  /\ argv = <<"--tnum", "-1", "c">>
  /\ result.kind = "usage"
  /\ result.exc = Raise("SystemExit", "tnum must be >= 0")

\* a call of one of the two parse_known_args entry points, and what the
\* entry point that accepts no unknown argument does with an argv
KnownCall ==
  Done /\ api \in {"parse_known_args", "parse_known_args_with_submodes"}
Strict(args) ==
  IF api = "parse_known_args" THEN parse_args(cls, args)
  ELSE parse_args_with_submodes(cls, args, submodes)

\* what is left of a sequence without the positions given, and the
\* instances and the unknown arguments of a returned tuple
Without(s, P) ==
  LET Keep[i \in 0..Len(s)] ==
        IF i = 0 THEN << >>
        ELSE IF i \in P THEN Keep[i - 1] ELSE Append(Keep[i - 1], s[i])
  IN Keep[Len(s)]
KnownInstances ==
  IF api = "parse_known_args" THEN result.value.tuple[1]
  ELSE VTuple(SubSeq(result.value.tuple, 1, 2))
KnownUnknown ==
  LET l == result.value.tuple[Len(result.value.tuple)].list
  IN [i \in 1..Len(l) |-> l[i].str]

\* C14 (as claimed): parse_known_args never fails because of tokens that
\* match no registered argument: whenever parse_args returns an instance
\* for argv without its unregistered tokens, parse_known_args returns that
\* instance for argv, with those tokens as the unknown list.
C14_UnknownNeverFails ==
  (KnownCall /\ api = "parse_known_args") =>
    LET P == {i \in 1..Len(argv) : argv[i] = UnknownFlag}
    IN parse_args(cls, Without(argv, P)).kind = "return" =>
         /\ result.kind = "return"
         /\ KnownInstances = parse_args(cls, Without(argv, P)).value
         /\ KnownUnknown = Without(argv, (1..Len(argv)) \ P)

\* C14 (amended): the two parse_known_args entry points never fail for
\* arguments left unrecognized: where the entry point without "known" fails
\* only with "unrecognized arguments" they go on to reconstruction and
\* validation (or find no submode selected), otherwise they end as it does
\* (an unknown flag between a flag and its value still fails, with
\* "expected one argument"); what they return is the
\* validated instance(s) that entry point returns for argv without the
\* unknown tokens, and the unknown tokens in their argv order.
C14_UnknownArgsCollected ==
  KnownCall =>
    /\ result.kind = "return" =>
         /\ \E P \in SUBSET (1..Len(argv)) :
              /\ Cardinality(P) = Len(KnownUnknown)
              /\ Without(argv, (1..Len(argv)) \ P) = KnownUnknown
              /\ Strict(Without(argv, P)) =
                   Returned(KnownInstances, result.phases)
         /\ validate_post_argparse(result.value.tuple[1]) = None
         /\ api = "parse_known_args_with_submodes" =>
              validate_post_argparse(result.value.tuple[2]) = None
    /\ Strict(argv).exc = Raise("SystemExit", "unrecognized arguments") =>
         \/ \E k \in 1..Len(result.phases) : result.phases[k][1] = "construct"
         \/ result.exc = Raise("SystemExit", "No submode selected")
    /\ Strict(argv).exc # Raise("SystemExit", "unrecognized arguments") =>
         IF result.kind = "return"
         THEN /\ KnownUnknown = << >>
              /\ Strict(argv) = Returned(KnownInstances, result.phases)
         ELSE Strict(argv) = result

C14_Witness ==
  /\ KnownCall /\ api = "parse_known_args_with_submodes" /\ cls = "TopV"
  /\ argv = <<"--tnum", "5", "c", "--unknown">>
  /\ result.kind = "return"
  /\ result.value =
       VTuple(<<Instance("TopV", [tnum |-> VInt(5)]),
                Instance("SubmodeC", [cnum |-> VInt(0)]),
                VList(<<VStr("--unknown")>>)>>)

\* the argument descriptors of a compiled tree, and what identifies one to
\* the outside: its flag spellings or positional slot, and its dest
RECURSIVE Descriptors(_)
Descriptors(spec) ==
  LET Subs[i \in 0..Len(spec.subspecs)] ==
        IF i = 0 THEN << >>
        ELSE Subs[i - 1] \o Descriptors(spec.subspecs[i].spec)
  IN spec.members \o Subs[Len(spec.subspecs)]
Identity(item) ==
  {get_optnames(item)[i] : i \in 1..Len(get_optnames(item))} \cup {item.name}
SharedIdentity(spec) ==
  \E i, j \in 1..Len(Descriptors(spec)) :
    /\ i # j
    /\ Identity(Descriptors(spec)[i]) \cap Identity(Descriptors(spec)[j]) # {}

\* the call was rejected while the schema was built, before argv was read
RejectedAtBuildTime ==
  /\ result.kind = "raise"
  /\ \A k \in 1..Len(result.phases) :
       result.phases[k][1] \in {"compile", "register"}

\* C15 (as claimed): the identity of every argument descriptor (flag
\* spelling, positional slot, dest) is unique across the compiled tree: a
\* schema in which two descriptors share an identity is rejected at build
\* time, before argv is read, so no call on such a schema returns an object.
C15_SharedIdentityRejected ==
  (Done /\ api = "parse_args" /\ cls \in {"TwoPos", "TwoFlags", "TwoDests"}) =>
    /\ SharedIdentity(from_class(cls, None))
    /\ RejectedAtBuildTime

\* what the package does reject: two descriptors with the same flag spelling
SharedFlagRejected ==
  (Done /\ api = "parse_args" /\ cls = "TwoFlags") =>
    /\ RejectedAtBuildTime
    /\ result.exc = Raise("ArgumentError", "conflicting option string")

\* C16 (as claimed): a field declared with the positional marker together
\* with explicit option names is a build-time error: no call on the schema
\* gets as far as reading argv, and the names are never silently dropped.
C16_PositionalWithNamesRejected ==
  (GenCall /\ genNames # << >>
     /\ genField \in {Declare(GenName, TInt,
                              arg(Help, genNames, TRUE, None, None, d,
                                  MISSING, None, None)) :
                        d \in {MISSING, VInt(1)}}) =>
    RejectedAtBuildTime

\* what the package does with the names of a positional field: arg() keeps
\* none of them, the field is the one declared without names, and the name
\* given is an unrecognized argument
PositionalNamesDropped ==
  (GenCall /\ genNames # << >> /\ GenPositional) =>
    /\ genField \in GenFields
    /\ "optnames" \notin DOMAIN GenOpts
    /\ Supplied(genNames[1]) => result.kind = "usage"

\* a call of ConfigClass.parse_args on the generated schema of the first
\* generation, and what its only field declares
LegacyGenCall == Done /\ api = "ConfigClass.parse_args" /\ cls = "LegacyGen"
LegacyOverride == "nargs" \in DOMAIN genField.metadata
LegacyListKind == get_origin(genField.type) = "list"
LegacyPositional == "positional" \in DOMAIN genField.metadata
LegacyDeclaresDefault ==
  genField.default # MISSING \/ genField.default_factory # MISSING

\* C17: a field with an nargs override whose kind is not List is rejected
\* when the schema is compiled, with a TypeError; on a field of List kind
\* the override replaces "one or more": with "*" the flag alone, or no
\* positional token at all, gives the empty list, which "+" refuses.
C17_NargsOverrideOnlyForLists ==
  LegacyGenCall =>
    /\ (LegacyOverride /\ ~LegacyListKind) =>
         result = Raised(Raise("TypeError",
                               "Can't override nargs for non-list type"),
                         UpTo("compile", cls))
    /\ LegacyListKind =>
         /\ result.kind # "raise"
         /\ ArgOpts_from_field(genField).nargs =
              (IF LegacyOverride THEN VStr("*") ELSE VStr("+"))
         /\ argv = (IF LegacyPositional THEN << >> ELSE <<"--a-b">>) =>
              IF LegacyOverride
              THEN result.kind = "return" /\ GenValue = VList(<< >>)
              ELSE result.kind = "usage"

C17_Witness ==
  /\ LegacyGenCall
  /\ genField = Declare(GenName, TInt,
                        positionalfield(Help, None, None, VStr("*")))
  /\ argv = <<"5">>
  /\ result.kind = "raise" /\ result.exc.exc = "TypeError"

\* the override at work on a list
C17_WitnessList ==
  /\ LegacyGenCall /\ LegacyListKind /\ LegacyOverride /\ ~LegacyPositional
  /\ argv = <<"--a-b">>
  /\ result.kind = "return" /\ GenValue = VList(<< >>)

\* C18: a field of List kind whose multiplicity is narrowed to "zero or
\* more" and that declares neither a default nor a default factory is
\* rejected when the schema is compiled.
C18_NarrowingNeedsDefault ==
  (LegacyGenCall /\ LegacyListKind /\ LegacyOverride
     /\ ~LegacyDeclaresDefault) =>
    result.kind = "raise" /\ result.phases = UpTo("compile", cls)

\* what the compilation does with such a field: it is accepted, the
\* registration is "zero or more" and required, and the flag alone gives []
NarrowingWithoutDefaultAccepted ==
  (LegacyGenCall /\ LegacyListKind /\ LegacyOverride
     /\ ~LegacyDeclaresDefault) =>
    /\ result.kind # "raise"
    /\ ArgOpts_from_field(genField).nargs = VStr("*")
    /\ argv = (IF LegacyPositional THEN << >> ELSE <<"--a-b">>) =>
         result.kind = "return" /\ GenValue = VList(<< >>)

\* a call of parse_args on the generated schema whose
\* field is declared with a union that is not Optional-of-T
UnionCall == GenCall /\ genField.type \in UnionTypes

\* C19: a field whose declared type is a union of another shape than
\* Optional-of-T is rejected while the schema is compiled, before argv is
\* looked at, and is never compiled into a Standard-kind argument.
C19_UnionRejectedAtCompile ==
  UnionCall =>
    /\ result.kind = "raise"
    /\ result.phases = UpTo("compile", cls)
    /\ "class" \in DOMAIN GenItem => GenItem.class # "StandardSpecItem"

\* what the compilation does with such a field: a positional one is refused
\* with a TypeError, a flag becomes a Standard-kind argument converting with
\* the union itself, so that every supplied value is a usage failure and
\* the declared default is returned when the flag is absent
UnionFlagCompiledAsStandard ==
  UnionCall =>
    IF GenPositional
    THEN /\ result.kind = "raise" /\ result.exc.exc = "TypeError"
         /\ result.phases = UpTo("compile", cls)
    ELSE /\ GenItem.class = "StandardSpecItem"
         /\ GenItem.type = genField.type
         /\ result.kind # "raise"
         /\ result.kind = "return" =>
              /\ argv = << >>
              /\ GenValue = genField.default

\* the keyword arguments the generated Optional-of-T flag field is
\* registered with, in either generation
OptionalFlagCall ==
  /\ genField.type = TOptional(TInt)
  /\ \/ GenCall /\ ~GenPositional
     \/ LegacyGenCall /\ ~LegacyPositional
OptionalRegistration ==
  IF cls = "Gen" THEN get_kwargs(GenItem)
  ELSE ArgOpts_to_kwargs(ArgSpec_from_field(genField).opts)

\* C20: a field declared Optional-of-T is registered with required = false
\* whether or not it declares a default, by OptionalSpecItem.get_kwargs and
\* by ArgOpts.from_field alike; left out of argv it is no usage failure.
C20_OptionalNeverRequired ==
  OptionalFlagCall =>
    /\ "required" \in DOMAIN OptionalRegistration
    /\ OptionalRegistration["required"] = VBool(FALSE)
    /\ argv = << >> => result.kind = "return"

\* what the two generations do: OptionalSpecItem.get_kwargs always says
\* required = false; ArgOpts.from_field says it only when the field
\* declares a default, and required = true otherwise, so that leaving the
\* flag out is a usage failure
OptionalRequiredInFirstGeneration ==
  OptionalFlagCall =>
    /\ "required" \in DOMAIN OptionalRegistration
    /\ OptionalRegistration["required"] =
         VBool(cls = "LegacyGen" /\ ~LegacyDeclaresDefault)
    /\ argv = << >> =>
         IF cls = "LegacyGen" /\ ~LegacyDeclaresDefault
         THEN /\ result.kind = "usage"
              /\ result.exc =
                   Raise("SystemExit", "the following arguments are required")
         ELSE result.kind = "return"

\* the tokens of an argv cut into units: a switch on its own, a flag with
\* the value that follows it, or a positional token
Switches == {"--debug", "--quiet"}
IsFlagToken(tok) == tok \in DashStrings
RECURSIVE UnitsOf(_)
UnitsOf(args) ==
  IF args = << >> THEN << >>
  ELSE IF IsFlagToken(args[1]) /\ args[1] \notin Switches /\ Len(args) >= 2
  THEN <<SubSeq(args, 1, 2)>> \o UnitsOf(SubSeq(args, 3, Len(args)))
  ELSE <<SubSeq(args, 1, 1)>> \o UnitsOf(Tail(args))
IsFlagUnit(u) == IsFlagToken(u[1])
\* every flag is given once and every value flag has a value after it
WellFormedArgv(args) ==
  LET units == UnitsOf(args)
  IN /\ \A i \in 1..Len(units) :
          IsFlagUnit(units[i]) =>
            /\ units[i][1] \in Switches \/ Len(units[i]) = 2
            /\ Len(units[i]) = 2 => ~IsFlagToken(units[i][2])
     /\ \A i, j \in 1..Len(units) :
          (i # j /\ IsFlagUnit(units[i]) /\ IsFlagUnit(units[j])) =>
            units[i][1] # units[j][1]
RECURSIVE Flatten(_)
Flatten(units) ==
  IF units = << >> THEN << >> ELSE units[1] \o Flatten(Tail(units))
\* the argvs that give the same units in another order, the positional
\* tokens keeping their relative order
Arrangements(args) ==
  LET units == UnitsOf(args)
      n == Len(units)
      perms == {p \in [1..n -> 1..n] :
                  /\ \A i, j \in 1..n : i # j => p[i] # p[j]
                  /\ \A i, j \in 1..n :
                       (i < j /\ ~IsFlagUnit(units[p[i]])
                              /\ ~IsFlagUnit(units[p[j]])) => p[i] < p[j]}
  IN {Flatten([i \in 1..n |-> units[p[i]]]) : p \in perms}

ReorderCall ==
  Done /\ api = "parse_args" /\ cls # "Gen" /\ WellFormedArgv(argv)
SameObjectForArrangements ==
  \A other \in Arrangements(argv) :
    LET reordered == parse_args(cls, other)
    IN reordered.kind = "return" => reordered.value = result.value

\* C21: two argvs that give the same tokens to the same arguments, the
\* flags in another order and interleaved with the positional tokens in
\* another way, are reconstructed into equal objects.
C21_ReorderedArgvSameObject ==
  (ReorderCall /\ result.kind = "return") => SameObjectForArrangements

\* the same on the schemas whose flags are stored under different names
ReorderedArgvSameObjectOnDistinctDests ==
  (ReorderCall /\ result.kind = "return" /\ cls # "TwoDests") =>
    /\ SameObjectForArrangements
    /\ cls = "PosAndOpt" =>
         \A other \in Arrangements(argv) : parse_args(cls, other) = result

\* on two flags of two groups stored under one name the last one given
\* is the value of both fields
LastFlagWinsOnSharedDest ==
  (ReorderCall /\ cls = "TwoDests" /\ Len(argv) = 4 /\ result.kind = "return") =>
    /\ result.value.f["a_opts"].f["anum"] = VInt(IntOf[argv[4]])
    /\ result.value.f["loglevel"].f["anum"] = VInt(IntOf[argv[4]])

\* a Specification was compiled, and an object built from the raw values
\* of argv, twice
UsedTwice == pc = "again" /\ api = "Specification"

C22_WitnessNested ==
  /\ UsedTwice /\ cls = "Swap"
  /\ argv = <<"--natural", "5">>
  /\ result.kind = "return"
  /\ again.value.built.f["checked"].f["anum"] = VInt(5)

\* the positional fields of a schema as paths of field names: in the order
\* the class statements declare them, depth first, and in the order
\* add_to_parser registers them (the members of a group, then its groups)
IsPositionalField(f) ==
  DictGet(f.metadata, CFG_METADATA_FIELD,
          DefaultNonPositionalConfigOpts).class = "ConfigOpts"
RECURSIVE PositionalPaths(_, _, _)
PositionalPaths(fs, groups, membersfirst) ==
  IF fs = << >>
  THEN IF groups = << >> THEN << >>
       ELSE LET inner == PositionalPaths(fields(groups[1].type.n), << >>,
                                         membersfirst)
            IN [i \in 1..Len(inner) |-> <<groups[1].name>> \o inner[i]]
                 \o PositionalPaths(<< >>, Tail(groups), membersfirst)
  ELSE IF _is_configcls_field(fs[1])
  THEN IF membersfirst
       THEN PositionalPaths(Tail(fs), Append(groups, fs[1]), membersfirst)
       ELSE PositionalPaths(<< >>, <<fs[1]>>, membersfirst)
              \o PositionalPaths(Tail(fs), groups, membersfirst)
  ELSE (IF IsPositionalField(fs[1]) THEN <<<<fs[1].name>>>> ELSE << >>)
         \o PositionalPaths(Tail(fs), groups, membersfirst)
DeclaredPositionals(c) == PositionalPaths(fields(c), << >>, FALSE)
RegisteredPositionals(c) == PositionalPaths(fields(c), << >>, TRUE)
RECURSIVE ValueAt(_, _)
ValueAt(v, path) ==
  IF path = << >> THEN v ELSE ValueAt(v.f[path[1]], Tail(path))
\* the tokens of argv that are no flag and no value of a flag
PositionalTokens(args) ==
  Flatten(SelectSeq(UnitsOf(args), LAMBDA u : ~IsFlagUnit(u)))
\* the k-th positional token is the value of the k-th path; a list takes
\* the tokens that are left
FilledInOrder(paths, tokens) ==
  \A k \in 1..Len(paths) :
    LET v == ValueAt(result.value, paths[k])
    IN IF IsList(v)
       THEN v = VList([i \in 1..(Len(tokens) - k + 1) |->
                         VInt(IntOf[tokens[k + i - 1]])])
       ELSE k <= Len(tokens) /\ v = VInt(IntOf[tokens[k]])
\* the schemas with positional fields of different names
PositionalSchemas == {"PosAndOpt", "PosList", "GroupFirst"}
PositionalCall ==
  /\ Done /\ api = "parse_args" /\ cls \in PositionalSchemas
  /\ WellFormedArgv(argv) /\ result.kind = "return"

\* C23: the k-th positional token of argv is the value of the k-th
\* positional field in declaration order, depth first, also when a nested
\* group with a positional field is declared before a direct one.
C23_PositionalsInDeclarationOrder ==
  PositionalCall => FilledInOrder(DeclaredPositionals(cls),
                                  PositionalTokens(argv))

\* what the registration does: the direct positional fields of a group
\* take their tokens before the positional fields of its nested groups
PositionalsInRegistrationOrder ==
  PositionalCall =>
    /\ FilledInOrder(RegisteredPositionals(cls), PositionalTokens(argv))
    /\ cls = "GroupFirst" =>
         /\ DeclaredPositionals(cls) = <<<<"inner", "anum">>, <<"posfield">>>>
         /\ RegisteredPositionals(cls) =
              <<<<"posfield">>, <<"inner", "anum">>>>
    /\ cls \in {"PosAndOpt", "PosList"} =>
         DeclaredPositionals(cls) = RegisteredPositionals(cls)

(***************************************************************************)
(* C24: the first validator to raise ValueError ends the validation pass:  *)
(* no validator of any object is invoked after it, the call ends as a      *)
(* usage failure carrying exactly that validator's message, and the        *)
(* ValueError itself never reaches the caller.                             *)
(***************************************************************************)
\* the entry points that run validate_post_argparse
ValidatingApis ==
  {"parse_args", "parse_known_args", "parse_args_with_submodes",
   "parse_known_args_with_submodes"}

\* the i-th validator invoked by the call signalled failure
SignalledFailure(i) ==
  /\ validated[i].raised # None
  /\ validated[i].raised.exc = "ValueError"

C24_FirstFailureShortCircuits ==
  (Done /\ api \in ValidatingApis) =>
    \A i \in 1..Len(validated) :
      SignalledFailure(i) =>
        /\ i = Len(validated)
        /\ result.kind = "usage"
        /\ result.exc = Raise("SystemExit", validated[i].raised.msg)
        /\ result.exc # validated[i].raised

\* the first of two failing validators of one object was the only one invoked
C24_Witness ==
  /\ Done /\ api = "parse_args" /\ cls = "Checks"
  /\ argv = <<"--anum", "-1", "--cnum", "-1">>
  /\ Len(validated) = 1
  /\ validated[1].validator = "validate_my_config"
  /\ validated[1].on.obj = "Checks"
  /\ SignalledFailure(1)
  /\ result = UsageFailure("anum must be >= 0", UpTo("validate", "Checks"))

\* the first of two failing nested objects was the last one validated
C24_WitnessNested ==
  /\ Done /\ api = "parse_args" /\ cls = "Checks"
  /\ argv = <<"--cnum", "-1", "--tnum", "-1">>
  /\ Len(validated) = 3
  /\ validated[3].on.obj = "SubmodeC"
  /\ SignalledFailure(3)
  /\ result.kind = "usage"
  /\ result.exc.msg = "cnum must be >= 0"

\* a failing top-level validator: the selected submode was not validated
C24_WitnessSubmode ==
  /\ Done /\ api = "parse_args_with_submodes" /\ cls = "TopV"
  /\ argv = <<"--tnum", "-1", "c">>
  /\ Len(validated) = 1
  /\ validated[1].on.obj = "TopV"
  /\ SignalledFailure(1)
  /\ result.kind = "usage"

(***************************************************************************)
(* C25: within one call the steps run in the order compile, register,      *)
(* parse, construct, validate, and a schema defect is raised before the    *)
(* engine parses argv, whatever argv holds.                                *)
(***************************************************************************)
\* the place of a step's phase in compile, register, parse, construct,
\* validate
PhaseRank(step) == CHOOSE i \in 1..Len(PhaseNames) : PhaseNames[i] = step[1]

\* the call made again on another argv
CallWith(args) ==
  CASE api = "parse_args" -> parse_args(cls, args)
    [] api = "parse_known_args" -> configclass_parse_known_args(cls, args)
    [] api = "parse_args_with_submodes" ->
         parse_args_with_submodes(cls, args, submodes)
    [] api = "parse_known_args_with_submodes" ->
         parse_known_args_with_submodes(cls, args, submodes)

\* the defects of a schema or of the call's submodes mapping
SchemaDefects ==
  {Raise("TypeError", "Can't use type with a positional argument."),
   Raise("TypeError", "is not a dataclass"),
   Raise("ValueError", "Can't parse_args_with_submodes with no submodes")}
SchemaDefect(r) == r.kind = "raise" /\ r.exc \in SchemaDefects

\* the schema of the call has a defect: a positional field of a type that
\* is neither a list nor a plain class, a submode that is no dataclass, or
\* no submode at all
Defective ==
  \/ /\ cls = "Gen"
     /\ GenOpts.class # "NonPositionalConfigOpts"
     /\ get_origin(OrElse(GenOpts.transform_type, genField.type))
          \notin {"list", "None"}
  \/ /\ api \in {"parse_args_with_submodes", "parse_known_args_with_submodes"}
     /\ \/ submodes = << >>
        \/ \E i \in 1..Len(submodes) : ~ClassDef(submodes[i].cls).dataclass

\* a schema defect is what the call raises, before the engine parses, and
\* the same on the empty argv
DefectsRaisedBeforeParse ==
  /\ Defective => result.kind = "raise"
  /\ SchemaDefect(result) =>
       /\ Defective
       /\ \A k \in 1..Len(result.phases) : PhaseRank(result.phases[k]) <= 2
  /\ SchemaDefect(result) <=> SchemaDefect(CallWith(<< >>))
  /\ SchemaDefect(result) => result = CallWith(<< >>)

\* C25 (as claimed): the steps of the whole call are in the order compile,
\* register, parse, construct, validate: no step of an earlier phase comes
\* after a step of a later one.
C25_PhasesInStrictOrder ==
  (Done /\ api \in ValidatingApis) =>
    /\ \A i, j \in 1..Len(result.phases) :
         i < j => PhaseRank(result.phases[i]) <= PhaseRank(result.phases[j])
    /\ DefectsRaisedBeforeParse

\* C25 (amended): the steps on each schema are in the order compile,
\* register, parse, construct, validate; every schema of the call is
\* compiled and registered before the one parse step, every instance is
\* constructed before any is validated; a schema defect is raised before
\* the parse step and does not depend on argv.
C25_PhasesInOrderPerSchema ==
  (Done /\ api \in ValidatingApis) =>
    /\ \A i, j \in 1..Len(result.phases) :
         i < j =>
           /\ result.phases[i][2] = result.phases[j][2] =>
                PhaseRank(result.phases[i]) < PhaseRank(result.phases[j])
           /\ PhaseRank(result.phases[i]) >= 3 =>
                PhaseRank(result.phases[i]) <= PhaseRank(result.phases[j])
           /\ PhaseRank(result.phases[i]) = 3 => PhaseRank(result.phases[j]) > 3
    /\ DefectsRaisedBeforeParse

\* a positional field of a union type: the TypeError of the compile step,
\* on an argv that holds tokens
C25_Witness ==
  /\ GenCall /\ Defective /\ argv # << >>
  /\ result = Raised(Raise("TypeError",
                           "Can't use type with a positional argument."),
                     UpTo("compile", "Gen"))

\* a submode that is no dataclass: the TypeError comes after the top-level
\* schema was registered and before the parse step
C25_WitnessSubmode ==
  /\ Done /\ api = "parse_args_with_submodes" /\ cls = "TopV"
  /\ argv = <<"--tnum", "-1", "c">>
  /\ result = Raised(Raise("TypeError", "is not a dataclass"),
                     UpTo("register", "TopV"))

\* a call with submodes that went through every step
C25_WitnessAllSteps ==
  /\ Done /\ api = "parse_args_with_submodes" /\ cls = "TopV"
  /\ result.kind = "return"
  /\ result.phases =
       UpTo("register", "TopV") \o UpTo("register", "SubmodeC")
       \o <<Step("parse", "TopV"), Step("construct", "TopV"),
            Step("construct", "SubmodeC"), Step("validate", "TopV"),
            Step("validate", "SubmodeC")>>

(***************************************************************************)
(* C26: the converter of an Optional-of-T field is T, the member of the    *)
(* union that is not NoneType, wherever T stands among the two members.    *)
(***************************************************************************)
\* a call on the generated schema whose only field is a flag of Optional
\* kind, in either generation
OptionalKindCall ==
  /\ _is_optional_type(genField.type)
  /\ \/ GenCall /\ ~GenPositional
     \/ LegacyGenCall /\ ~LegacyPositional

\* the member of a two-member union that is not NoneType
NonNoneMember(t) ==
  LET members == get_args(t)
  IN members[CHOOSE i \in 1..Len(members) : members[i] # TNoneType]

\* C26 (as claimed): the flag is registered with converter T and a token
\* that T accepts is stored as a T.
C26_OptionalConverterIsT ==
  OptionalKindCall =>
    /\ "type" \in DOMAIN OptionalRegistration
    /\ OptionalRegistration["type"] = VType(NonNoneMember(genField.type))
    /\ argv = <<"--a-b", "5">> =>
         /\ result.kind = "return"
         /\ result.value.f.a_b = VInt(5)

\* what both generations do: the converter is the first member of the
\* union as written, T for Optional[T] and Union[T, None], NoneType for
\* Union[None, T]; NoneType refuses every token
OptionalConverterIsFirstMember ==
  OptionalKindCall =>
    /\ "type" \in DOMAIN OptionalRegistration
    /\ OptionalRegistration["type"] = VType(get_args(genField.type)[1])
    /\ argv = <<"--a-b", "5">> =>
         IF genField.type = NoneFirst(TInt)
         THEN result = UsageFailure("invalid NoneType value",
                                    UpTo("parse", cls))
         ELSE /\ result.kind = "return"
              /\ result.value.f.a_b = VInt(5)

(***************************************************************************)
(* C27: the keywords an item gives the engine are a legal combination:     *)
(* never "default" together with "required": True; "required": True only   *)
(* for an item without a default; no "metavar" and no "choices" when they  *)
(* are None; no "dest" and no "required" for a positional item; no "type"  *)
(* and no "required" for a boolean item.                                   *)
(***************************************************************************)
\* the items of a compiled Specification and of the groups nested in it
RECURSIVE ItemsOf(_)
ItemsOf(spec) ==
  {spec.members[i] : i \in 1..Len(spec.members)}
  \cup UNION {ItemsOf(spec.subspecs[i].spec) : i \in 1..Len(spec.subspecs)}

\* a call whose schema compiles
CompiledCall ==
  /\ Done
  /\ api \in ValidatingApis \cup {"Specification"}
  /\ ~IsExc(from_class(cls, None))

RequiredTrue(kwargs) ==
  "required" \in DOMAIN kwargs /\ kwargs["required"] = VBool(TRUE)

LegalKwargs(item, kwargs) ==
  /\ ~("default" \in DOMAIN kwargs /\ RequiredTrue(kwargs))
  /\ RequiredTrue(kwargs) => item.default = NotSpecified
  /\ IF item.metavar = None THEN "metavar" \notin DOMAIN kwargs
     ELSE "metavar" \in DOMAIN kwargs /\ kwargs["metavar"] = item.metavar
  /\ IF item.choices = None THEN "choices" \notin DOMAIN kwargs
     ELSE "choices" \in DOMAIN kwargs /\ kwargs["choices"] = item.choices
  /\ IsPositionalItem(item) =>
       "dest" \notin DOMAIN kwargs /\ "required" \notin DOMAIN kwargs
  /\ item.class = "BoolSpecItem" =>
       "type" \notin DOMAIN kwargs /\ "required" \notin DOMAIN kwargs

C27_KwargsLegal ==
  CompiledCall =>
    \A item \in ItemsOf(from_class(cls, None)) :
      LegalKwargs(item, get_kwargs(item))

\* a positional item without a default, with a metavar and without choices
C27_Witness ==
  /\ GenCall /\ GenPositional
  /\ GenItem.class = "PositionalSpecItem"
  /\ GenItem.default = NotSpecified
  /\ DOMAIN get_kwargs(GenItem) = {"type", "help", "metavar"}

\* a flag without a default and with choices, a flag with a default, a
\* boolean item
C27_WitnessRequired ==
  /\ GenCall /\ ~GenPositional
  /\ GenItem.class = "StandardSpecItem"
  /\ DOMAIN get_kwargs(GenItem) = {"dest", "type", "help", "choices", "required"}
C27_WitnessDefault ==
  /\ GenCall /\ ~GenPositional
  /\ GenItem.class = "OptionalSpecItem"
  /\ get_kwargs(GenItem)["default"] = VInt(1)
  /\ get_kwargs(GenItem)["required"] = VBool(FALSE)
C27_WitnessBool ==
  /\ GenCall
  /\ GenItem.class = "BoolSpecItem"
  /\ GenItem.default = NotSpecified
  /\ DOMAIN get_kwargs(GenItem) = {"dest", "help", "action"}

(***************************************************************************)
(* C28: Specification.from_class partitions the fields of the schema:      *)
(* every field is exactly one member item or exactly one named subspec,    *)
(* and construct_from_namespace gives the constructor one keyword per      *)
(* field, named by the field.                                              *)
(***************************************************************************)
\* every field of the group's class is one member or one subspec, decided
\* by _is_configcls_field, in this group and in the groups nested in it
RECURSIVE Partitioned(_)
Partitioned(spec) ==
  LET fs == fields(spec.metatype)
      AsMember(n) == {j \in 1..Len(spec.members) : spec.members[j].name = n}
      AsSub(n) == {j \in 1..Len(spec.subspecs) : spec.subspecs[j].name = n}
  IN /\ Len(spec.members) + Len(spec.subspecs) = Len(fs)
     /\ \A i \in 1..Len(fs) :
          /\ Cardinality(AsMember(fs[i].name)) + Cardinality(AsSub(fs[i].name)) = 1
          /\ AsSub(fs[i].name) # {} <=> _is_configcls_field(fs[i])
     /\ \A j \in 1..Len(spec.subspecs) : Partitioned(spec.subspecs[j].spec)

\* the instance has one attribute per field of its class, and so have the
\* instances it holds
RECURSIVE OneKeywordPerField(_)
OneKeywordPerField(inst) ==
  /\ DOMAIN inst.f = {fields(inst.obj)[i].name : i \in 1..Len(fields(inst.obj))}
  /\ \A n \in DOMAIN inst.f :
       IsInstance(inst.f[n]) => OneKeywordPerField(inst.f[n])

\* the instance a call of parse_args or a use of Specification built
BuiltInstance ==
  IF api = "Specification" THEN result.value.built ELSE result.value

C28_FieldsPartitioned ==
  (CompiledCall /\ api \in {"parse_args", "Specification"}) =>
    /\ Partitioned(from_class(cls, None))
    /\ result.kind = "return" => OneKeywordPerField(BuiltInstance)
    /\ result.kind = "raise" =>
         result.exc # Raise("TypeError",
                            "__init__() got unexpected or missing arguments")

\* a schema with two nested groups and a direct field, constructed
C28_Witness ==
  /\ Done /\ api = "parse_args" /\ cls = "Checks"
  /\ result.kind = "return"
  /\ Len(from_class(cls, None).members) = 1
  /\ Len(from_class(cls, None).subspecs) = 2
  /\ DOMAIN result.value.f = {"a_opts", "loglevel", "anum"}

\* a group nested in a nested group
C28_WitnessNested ==
  /\ Done /\ api = "Specification" /\ cls = "Nest2"
  /\ result.kind = "return"
  /\ result.value.built.f["group"].f["child"].obj = "Natural"

(***************************************************************************)
(* C29: in parse_args_with_submodes the top-level instance depends only on *)
(* the tokens before the submode token and the submode instance only on    *)
(* the tokens after it, even when a field of the submode has the name of   *)
(* a top-level field.                                                      *)
(***************************************************************************)
\* a call with submodes that returned (top, sub), and the place of the
\* submode token in its argv
ReturnedSubmodeCall ==
  /\ SubmodeCall /\ api = "parse_args_with_submodes"
  /\ result.kind = "return"
  /\ Cardinality(SubmodeTokens) = 1
SelectedAt == CHOOSE i \in SubmodeTokens : TRUE

\* the same call without the submode's arguments, and without the
\* top-level arguments
WithoutSubmodeArguments ==
  parse_args_with_submodes(cls, SubSeq(argv, 1, SelectedAt), submodes)
WithoutTopLevelArguments ==
  parse_args_with_submodes(cls, SubSeq(argv, SelectedAt, Len(argv)), submodes)

\* the top-level instance is the one of the call without the submode's
\* arguments, the submode instance the one of the call without the
\* top-level arguments
Isolated ==
  /\ WithoutSubmodeArguments.kind = "return" =>
       WithoutSubmodeArguments.value.tuple[1] = result.value.tuple[1]
  /\ WithoutTopLevelArguments.kind = "return" =>
       WithoutTopLevelArguments.value.tuple[2] = result.value.tuple[2]

\* a field of the selected submode has the name of a top-level field
SharedFieldName ==
  \E i \in 1..Len(fields(cls)) :
    \E j \in 1..Len(fields(SubmodeClass(argv[SelectedAt]))) :
      fields(cls)[i].name = fields(SubmodeClass(argv[SelectedAt]))[j].name

\* C29 (as claimed)
C29_TopLevelAndSubmodeIsolated ==
  ReturnedSubmodeCall => Isolated

\* what the code does: the two instances are isolated when no field name
\* is shared; with a shared name both instances are built from the one
\* namespace attribute, which holds what the submode's parser stored
IsolatedOnDistinctNames ==
  ReturnedSubmodeCall =>
    IF SharedFieldName
    THEN result.value.tuple[1].f = result.value.tuple[2].f
    ELSE Isolated

(***************************************************************************)
(* C30: validate_post_argparse finishes, with success or with a usage      *)
(* failure, on every object it is given, also when an object is reachable  *)
(* from itself or through more than one attribute.                         *)
(***************************************************************************)
\* validate_post_argparse called by itself has ended
Walked == api = "validate_post_argparse" /\ pc = "done"

\* the objects an object's attributes refer to
RefsOf(r) ==
  {objects[r].f[a].ref : a \in {b \in DOMAIN objects[r].f : IsRef(objects[r].f[b])}}
RECURSIVE Descendants(_, _)
Descendants(rs, n) ==
  IF n = 0 THEN rs
  ELSE Descendants(rs \cup UNION {RefsOf(r) : r \in rs}, n - 1)

\* an object is reachable from itself
Cyclic ==
  \E r \in DOMAIN objects : r \in Descendants(RefsOf(r), Len(objects))

\* an object is referred to by more than one attribute
Shared ==
  \E r \in DOMAIN objects :
    Cardinality({<<q, a>> \in (DOMAIN objects) \X {"a_opts", "child", "loglevel"} :
                   /\ a \in DOMAIN objects[q].f
                   /\ objects[q].f[a] = Ref(r)}) > 1

\* C30 (as claimed)
C30_ValidationFinishes ==
  Walked => result.kind \in {"return", "usage"}

\* what the code does: without a cycle the walk finishes, and an object
\* reachable twice is validated twice; on a cycle whose validators all pass
\* the calls of _validate_nested nest until the interpreter raises
\* RecursionError, which is no ValueError and leaves validate_post_argparse
WalkFinishesWithoutCycle ==
  Walked =>
    IF ~Cyclic THEN result.kind \in {"return", "usage"}
    ELSE IF \A r \in DOMAIN objects :
              "anum" \in DOMAIN objects[r].f => objects[r].f["anum"].int >= 0
    THEN /\ result.kind = "raise"
         /\ result.exc.exc = "RecursionError"
         /\ Len(validated) >= RecursionLimit
    ELSE result.kind = "usage"

SharedObjectValidatedTwice ==
  (Walked /\ Shared /\ ~Cyclic /\ result.kind = "return") =>
    \E i, j \in 1..Len(validated) : i # j /\ validated[i].on = validated[j].on

\* the object graph as a value, when it has no cycle
RECURSIVE Unfolded(_)
Unfolded(r) ==
  Instance(objects[r].obj,
           [a \in DOMAIN objects[r].f |->
              IF IsRef(objects[r].f[a]) THEN Unfolded(objects[r].f[a].ref)
              ELSE objects[r].f[a]])

\* without a cycle the walk makes the calls and ends as
\* validate_post_argparse does on the value
WalkAgreesWithValidatePostArgparse ==
  (Walked /\ ~Cyclic) =>
    /\ Len(validated) = Len(validate_post_argparse_calls(Unfolded(Root)))
    /\ \A i \in 1..Len(validated) :
         /\ validated[i].validator =
              validate_post_argparse_calls(Unfolded(Root))[i].validator
         /\ validated[i].raised =
              validate_post_argparse_calls(Unfolded(Root))[i].raised
         /\ Unfolded(validated[i].on.ref) =
              validate_post_argparse_calls(Unfolded(Root))[i].on
    /\ IF validate_post_argparse(Unfolded(Root)) = None
       THEN result.kind = "return"
       ELSE /\ result.kind = "usage"
            /\ result.exc.msg = validate_post_argparse(Unfolded(Root)).msg

====
